---- MODULE Spec2Model ----
(***************************************************************************)
(* Predictive satellite routing (RFP): the SATNET-OSPF controller and its  *)
(* three modules, TopologyManagementModule (timeline store), LinkDetection *)
(* Module (link gate), RouteManagementModule (update buffer), and the      *)
(* PerformanceAnalyzer, driven by the ns-3 discrete-event scheduler.       *)
(*                                                                         *)
(* Time is counted in tenths of a second (0.1 s = 1), so that the source's *)
(* constants Tc = 2.0 s, dT = 0.5 s and the clamp value 0.1 s are the      *)
(* integers 20, 5 and 1.  The values the code holds as doubles (the        *)
(* markers, the analyzer's millisecond stamps, totals and averages) are    *)
(* computed with IEEE rounding.                                            *)
(***************************************************************************)
EXTENDS Integers, Sequences, FiniteSets, TLC

\* ---------------------------------------------------------------- constants
RFP_CONVERGENCE_TIME_TC == 20
RFP_SAFETY_MARGIN_DT == 5
ClampT1 == 1
AltRouteMetric == 10
AltPathMetric == 5
MaxRelayScan == 10
BaselineDetectionMs == 40000
BaselineConvergenceMs == 100
BaselinePacketsLost == 15
SIM_STOP == 1000

\* ------------------------------------------------------------------- bounds
NodeCount == 3
MaxEvents == 2
MaxObs == 2
MaxNegT0 == 20
MaxT0 == 3000

Nodes == 0..(NodeCount - 1)
\* requested failure instants offered to the controller: clamped (10),
\* the boundary Tc + 2dT (30), and a regular one (40) whose buffering window
\* overlaps that of the clamped one
EventTimes == {10, 30, 40}
\* virtual times at which the driver registers predictions (it uses 2.0 s)
RegTimes == {0, 20}
\* endpoint orders in which predictions are registered
EventPairs == {<<0, 1>>}
\* endpoint orders in which link changes are observed
ObsPairs == {<<0, 1>>, <<1, 0>>}
\* virtual times at which link changes are observed
ObsTimes == {12, 45, 60}

VARIABLES
    clock,                      \* Simulator::Now(), tenths of a second
    schedule,                   \* pending Simulator::Schedule callbacks
    m_predictedEvents,          \* TopologyManagementModule
    m_realLinkStates,           \* LinkDetectionModule
    m_reportedLinkStates,
    m_forcedDownLinks,
    m_bfuActive,                \* RouteManagementModule
    m_pendingUpdates,
    m_routeUpdatesBlocked,
    m_routeUpdatesApplied,
    m_eventCounter,             \* SatnetOspfController
    m_totalQuaggaModifications,
    m_standardOspf,             \* PerformanceAnalyzer
    m_rfp,
    m_activeEvents,
    m_packetsSentTotal,
    m_packetsReceivedTotal,
    m_packetsAtLinkDown,
    m_simulationStartTime,
    vtyshAvailable,             \* GetVtyshState().available
    vtyshChecked,               \* GetVtyshState().checked
    vtyshOnPath,                \* the machine has a vtysh binary
    vtyshDropped,               \* commands printed or dropped, not installed
    dceThrowIn,                 \* installations until one throws, 0 for none
    dceThrown,                  \* installations made to throw so far
    dceThrowKind,               \* what that installation throws
    dceApps,                    \* vtysh applications installed, in order
    dceStarted,                 \* the installed applications that have run
    healthyRun,                 \* core, timeline queue and executed actions
                                \* of the same run on a sink that loses nothing
    sinkLog,                    \* calls made on the sink's helpers, in order
    appliedLog,                 \* updates handed to ApplyRouteUpdateReal
    submitted,                  \* per submitted update: was it buffered?
    observed,                   \* calls of OnLinkStateChange so far
    aborted,                    \* a failed node lookup or an exception no
                                \* catch clause holds has ended the program
    simTime,                    \* the time Simulator::Stop was given
    pc,                         \* where main is: "setup", "run" or "end"
    discarded,                  \* callbacks Simulator::Destroy discarded
    fired,                      \* per stored event: actions executed so far
    lastOp,                     \* the operation executed last
    mk,                         \* timeline calculator run on its own
    report                      \* what PrintFinalResults printed last

vars == <<clock, schedule, m_predictedEvents, m_realLinkStates,
          m_reportedLinkStates, m_forcedDownLinks, m_bfuActive,
          m_pendingUpdates, m_routeUpdatesBlocked, m_routeUpdatesApplied,
          m_eventCounter, m_totalQuaggaModifications, m_standardOspf, m_rfp,
          m_activeEvents, m_packetsSentTotal, m_packetsReceivedTotal,
          m_packetsAtLinkDown, m_simulationStartTime, vtyshAvailable,
          vtyshChecked, vtyshOnPath, vtyshDropped, dceThrowIn, dceThrown,
          dceThrowKind, dceApps, dceStarted, healthyRun, sinkLog, appliedLog,
          submitted,
          observed, aborted, simTime, pc, discarded, fired, lastOp, mk,
          report>>

\* main has returned from Simulator::Run
stopped == pc = "end"

\* main has set up the environment, Simulator::Run has not returned and
\* nothing has ended the program
Running == pc = "run" /\ ~aborted

\* ------------------------------------------------------------------ helpers
Min2(x, y) == IF x < y THEN x ELSE y
Max2(x, y) == IF x < y THEN y ELSE x

\* std::map::operator[] / insert on a map held as a function
Put(m, k, v) == [x \in (DOMAIN m) \cup {k} |-> IF x = k THEN v ELSE m[x]]

EmptyMap == [x \in {} |-> FALSE]

\* The element of a one-element set.  Only({F(x) : x \in {e}}) is F(e) with
\* e computed once, however often F uses it; an operator otherwise computes
\* an argument each time it is used when TLC measures coverage.
Only(S) == CHOOSE x \in S : TRUE

\* one call of a helper of the quagga integration: SetQuaggaLinkStateReal
\* ("link": dst is the peer node), AddQuaggaRoute ("add") and DelQuaggaRoute
\* ("del": dst is the prefix and via the next hop, as text) or
\* ForceOspfConvergence ("converge")
SinkCall(op, node, dst, via, metric, up) ==
    [op |-> op, node |-> node, dst |-> dst, via |-> via, metric |-> metric,
     up |-> up]

\* ------------------------------------------------------------ IEEE doubles
\* The timeline is computed on C++ doubles.  Every double the timeline meets
\* lies within a few units in the last place of a whole number of tenths of a
\* second, so a double is held as [t, e]: its value is
\* t/10 + e/(10 * 2^56) seconds.  Doubles of at least 2^-4 are multiples of
\* 2^-56, so e is an integer; it is 0 when the value is exactly t tenths.
\* 2^n for 0 <= n <= 30
Pow2(n) ==
    <<1, 2, 4, 8, 16, 32, 64, 128, 256, 512, 1024, 2048, 4096, 8192, 16384,
      32768, 65536, 131072, 262144, 524288, 1048576, 2097152, 4194304,
      8388608, 16777216, 33554432, 67108864, 134217728, 268435456,
      536870912, 1073741824>>[n + 1]

\* 2^n modulo 5
Pow2Mod5(n) == <<1, 2, 4, 3>>[(n % 4) + 1]

\* the j with 2^j <= m < 2^(j+1), for m >= 1
RECURSIVE Log2(_)
Log2(m) == IF m < 2 THEN 0 ELSE 1 + Log2(m \div 2)

\* The exponent j with 2^j <= value < 2^(j+1) of the exact value (t, e),
\* t > 0: 2^j <= t/10 exactly when 2^j <= t \div 10, for j >= 0.  An exact
\* value just below a power of two (t tenths are 2^j s and e < 0) lies in the
\* binade underneath.
Binade(t, e) ==
    Only({IF e < 0 /\ (IF b >= 0 THEN t = 10 * Pow2(b) ELSE t = 5)
          THEN b - 1 ELSE b :
          b \in {IF t >= 10 THEN Log2(t \div 10)
                 ELSE IF t >= 5 THEN -1 ELSE IF t >= 3 THEN -2
                 ELSE IF t = 2 THEN -3 ELSE -4}})

\* round-to-nearest, ties to even, of the exact value (t, e) with t > 0: the
\* doubles of binade j are the multiples of 2^(j-52), that is the values for
\* which t * 2^56 + e is a multiple of m = 5 * 2^(j+5).  The 32-bit integers
\* of TLC carry this for values below 2^23 s.
RoundMagnitude(t, e) ==
    Only({IF r2 % m = 0 THEN e
          ELSE IF 2 * (r2 % m) < m \/ (2 * (r2 % m) = m /\ r2 < m)
          THEN e - (r2 % m)
          ELSE e + (m - (r2 % m)) :
          m \in {5 * Pow2(Binade(t, e) + 5)},
          r2 \in {(Pow2(Binade(t, e) + 6)
                       * (((t % 5) * Pow2Mod5(50 - Binade(t, e))) % 5) + e)
                  % (10 * Pow2(Binade(t, e) + 5))}})

Double(t, e) == [t |-> t, e |-> e]

\* the double nearest to an exact value
RoundToDouble(t, e) ==
    IF t > 0 THEN Double(t, RoundMagnitude(t, e))
    ELSE IF t < 0 THEN Double(t, 0 - RoundMagnitude(0 - t, 0 - e))
    ELSE Double(t, e)

\* the double a decimal literal of t tenths denotes, which is also what
\* Time::GetSeconds gives for a clock reading of t tenths
DoubleOf(t) == RoundToDouble(t, 0)

DoubleAdd(x, y) ==
    Only({RoundToDouble(a.t + b.t, a.e + b.e) : a \in {x}, b \in {y}})

DoubleSub(x, y) ==
    Only({RoundToDouble(a.t - b.t, a.e - b.e) : a \in {x}, b \in {y}})

DoubleLess(x, y) == x.t < y.t \/ (x.t = y.t /\ x.e < y.e)

DoubleLeq(x, y) == x.t < y.t \/ (x.t = y.t /\ x.e <= y.e)

\* Seconds(double) rounds to whole nanoseconds; e stands for less than a
\* nanosecond, so the Time is the whole number of tenths
Seconds(x) == x.t

\* ------------------------------------------------- TopologyManagementModule
\* The event holds each marker as its tenths (T0, T1, T2, T3) and, in eps,
\* the e of the marker's double.
Tc == DoubleOf(RFP_CONVERGENCE_TIME_TC)

dT == DoubleOf(RFP_SAFETY_MARGIN_DT)

\* 2 * RFP_SAFETY_MARGIN_DT, an exact product
TwodT == DoubleOf(2 * RFP_SAFETY_MARGIN_DT)

MakeEvent(lid, a, b, d0, d1, d2, d3) ==
    [linkId |-> lid, nodeA |-> a, nodeB |-> b, T0 |-> d0.t, T1 |-> d1.t,
     T2 |-> d2.t, T3 |-> d3.t,
     eps |-> [T0 |-> d0.e, T1 |-> d1.e, T2 |-> d2.e, T3 |-> d3.e],
     active |-> TRUE]

\* the four markers of an event as doubles
MarkerT0(event) == Double(event.T0, event.eps.T0)

MarkerT1(event) == Double(event.T1, event.eps.T1)

MarkerT2(event) == Double(event.T2, event.eps.T2)

MarkerT3(event) == Double(event.T3, event.eps.T3)

\* a derivation that subtracts the safety margin once instead of twice
PredictableLinkDownEvent_OneMargin(lid, a, b, t0) ==
    LET d0 == DoubleOf(t0)
        t1 == DoubleSub(DoubleSub(d0, Tc), dT)
        t2 == DoubleSub(d0, dT)
        t3 == DoubleAdd(d0, dT)
        c1 == DoubleOf(ClampT1)
        c2 == DoubleAdd(DoubleAdd(c1, Tc), dT)
        c3 == DoubleAdd(c2, TwodT)
        c0 == DoubleSub(c3, dT)
    IN  IF DoubleLess(t1, DoubleOf(0))
        THEN MakeEvent(lid, a, b, c0, c1, c2, c3)
        ELSE MakeEvent(lid, a, b, d0, t1, t2, t3)

\* a clamp that moves T1, T2 and T3 but keeps the requested T0
PredictableLinkDownEvent_ClampKeepsT0(lid, a, b, t0) ==
    LET d0 == DoubleOf(t0)
        t1 == DoubleSub(DoubleSub(d0, Tc), TwodT)
        t2 == DoubleSub(d0, dT)
        t3 == DoubleAdd(d0, dT)
        c1 == DoubleOf(ClampT1)
        c2 == DoubleAdd(DoubleAdd(c1, Tc), dT)
        c3 == DoubleAdd(c2, TwodT)
    IN  IF DoubleLess(t1, DoubleOf(0))
        THEN MakeEvent(lid, a, b, d0, c1, c2, c3)
        ELSE MakeEvent(lid, a, b, d0, t1, t2, t3)

PredictableLinkDownEvent(lid, a, b, t0) ==
    LET d0 == DoubleOf(t0)
        t1 == DoubleSub(DoubleSub(d0, Tc), TwodT)
        t2 == DoubleSub(d0, dT)
        t3 == DoubleAdd(d0, dT)
        c1 == DoubleOf(ClampT1)
        c2 == DoubleAdd(DoubleAdd(c1, Tc), dT)
        c3 == DoubleAdd(c2, TwodT)
        c0 == DoubleSub(c3, dT)
    IN  IF DoubleLess(t1, DoubleOf(0))
        THEN MakeEvent(lid, a, b, c0, c1, c2, c3)
        ELSE MakeEvent(lid, a, b, d0, t1, t2, t3)

\* the default constructor: an inactive event
DefaultEvent ==
    [linkId |-> -1, nodeA |-> -1, nodeB |-> -1, T0 |-> 0, T1 |-> 0,
     T2 |-> 0, T3 |-> 0, eps |-> [T0 |-> 0, T1 |-> 0, T2 |-> 0, T3 |-> 0],
     active |-> FALSE]

AddPredictableLinkDown(events, lid, a, b, eventTime) ==
    Append(events, PredictableLinkDownEvent(lid, a, b, eventTime))

\* currentTime is the double the caller passes, given as its tenths
IsInBldPeriod(events, nodeA, nodeB, currentTime) ==
    \E i \in 1..Len(events) :
        /\ events[i].active
        /\ \/ (events[i].nodeA = nodeA /\ events[i].nodeB = nodeB)
           \/ (events[i].nodeA = nodeB /\ events[i].nodeA = nodeA)
        /\ DoubleLeq(MarkerT1(events[i]), DoubleOf(currentTime))
        /\ DoubleLeq(DoubleOf(currentTime), MarkerT3(events[i]))

IsInBfuPeriod(events, currentTime) ==
    \E i \in 1..Len(events) :
        /\ events[i].active
        /\ DoubleLeq(MarkerT1(events[i]), DoubleOf(currentTime))
        /\ DoubleLeq(DoubleOf(currentTime), MarkerT2(events[i]))

\* ------------------------------------------------------- quagga integration
\* a validation that forgets to refuse a pair of identical nodes
ValidateNodeIndices_NoIdentityCheck(nodeA, nodeB) ==
    /\ ~(nodeA < 0 \/ nodeB < 0)
    /\ ~(nodeA >= NodeCount \/ nodeB >= NodeCount)

ValidateNodeIndices(nodeA, nodeB) ==
    /\ ~(nodeA < 0 \/ nodeB < 0)
    /\ ~(nodeA >= NodeCount \/ nodeB >= NodeCount)
    /\ nodeA # nodeB

\* The state the helpers work on, as one record: GetVtyshState() (available,
\* checked), what the machine has (onPath: stat finds a vtysh binary), the
\* applications installed on DCE so far (apps), the calls the helpers have
\* accepted (calls), the number of Install calls until one throws (throwIn,
\* 0 for none), what that call throws (throwKind: a std::exception, "std",
\* or anything else, "other"), the number of commands that were not handed
\* to DCE (lost), the number of helper calls the running operation has made
\* (made) and the exception that is on its way out of the code that has just
\* run (exc: "none", "std" or "other").
MaxCommandLength == 200

MaxConvergeNodes == 20

\* app.Start(Seconds(0.1))
DceStartDelay == 1

\* what an installation can throw: a std::exception or anything else
ThrowKinds == {"std", "other"}

\* the exception that leaves a try block whose catch clauses hold the kinds
\* of `clauses`
Catch(exc, clauses) == IF exc \in clauses THEN "none" ELSE exc

\* the availability is decided by the first call and kept
IsVtyshAvailable(v) ==
    Only({IF s.checked THEN s
          ELSE [s EXCEPT !.available = s.onPath, !.checked = TRUE] :
          s \in {v}})

\* an ExecuteVtyshCommand without its catch (...) clause
ExecuteVtyshCommand_CatchStdOnly(v, node, command) ==
    IF command = "" THEN v
    ELSE Only({IF ~w.available THEN [w EXCEPT !.lost = @ + 1]
               ELSE IF Len(command) > MaxCommandLength
               THEN [w EXCEPT !.lost = @ + 1]
               ELSE IF w.throwIn = 1
               THEN [w EXCEPT !.throwIn = 0, !.lost = @ + 1,
                              !.exc = Catch(w.throwKind, {"std"})]
               ELSE [w EXCEPT !.apps = Append(@, [node |-> node,
                                                  command |-> command]),
                              !.throwIn = IF @ > 1 THEN @ - 1 ELSE 0] :
               w \in {IsVtyshAvailable(v)}})

\* Every caller passes a node it has tested or dereferenced, so the null
\* check never fires.  A command that is only printed or is too long is
\* dropped.  An installation that throws is dropped as well: the try block
\* has a clause for std::exception and a clause for everything else, so
\* whatever is thrown, no exception leaves and the caller goes on with its
\* next command.
ExecuteVtyshCommand(v, node, command) ==
    IF command = "" THEN v
    ELSE Only({IF ~w.available THEN [w EXCEPT !.lost = @ + 1]
               ELSE IF Len(command) > MaxCommandLength
               THEN [w EXCEPT !.lost = @ + 1]
               ELSE IF w.throwIn = 1
               THEN [w EXCEPT !.throwIn = 0, !.lost = @ + 1,
                              !.exc = Catch(w.throwKind, {"std", "other"})]
               ELSE [w EXCEPT !.apps = Append(@, [node |-> node,
                                                  command |-> command]),
                              !.throwIn = IF @ > 1 THEN @ - 1 ELSE 0] :
               w \in {IsVtyshAvailable(v)}})

\* the calls a helper makes on ExecuteVtyshCommand for one node, in order;
\* an exception that leaves one of them ends the sequence
RECURSIVE RunCommands(_, _, _)
RunCommands(v, node, commands) ==
    IF commands = <<>> \/ v.exc # "none" THEN v
    ELSE Only({RunCommands(w, node, Tail(commands)) :
               w \in {ExecuteVtyshCommand(v, node, Head(commands))}})

\* the helper was called: sinkLog keeps the calls that passed the validation
Called(v, call) == [v EXCEPT !.calls = Append(@, call)]

\* the end of a helper's try block, whose one catch clause is for
\* std::exception
HelperCatch(v) == [v EXCEPT !.exc = Catch(@, {"std"})]

\* only nodeA's daemon is addressed
SetQuaggaLinkStateReal(v, nodeA, nodeB, isUp) ==
    IF ~ValidateNodeIndices(nodeA, nodeB) THEN v
    ELSE Only({HelperCatch(
                   IF w.available
                   THEN RunCommands(w, nodeA,
                            <<"configure terminal",
                              IF isUp THEN "no shutdown" ELSE "shutdown">>)
                   ELSE [w EXCEPT !.lost = @ + 2]) :
               w \in {IsVtyshAvailable(
                          Called(v, SinkCall("link", nodeA, nodeB, -1, 0,
                                             isUp)))}})

AddQuaggaRoute(v, node, prefix, nexthop, metric) ==
    HelperCatch(RunCommands(
        Called(v, SinkCall("add", node, prefix, nexthop, metric, TRUE)), node,
        <<"configure terminal",
          "ip route " \o prefix \o " " \o nexthop \o " " \o ToString(metric),
          "router ospf",
          "redistribute static">>))

DelQuaggaRoute(v, node, prefix, nexthop) ==
    HelperCatch(RunCommands(
        Called(v, SinkCall("del", node, prefix, nexthop, 0, FALSE)), node,
        <<"configure terminal",
          "no ip route " \o prefix \o " " \o nexthop>>))

RECURSIVE ConvergeNodes(_, _)
ConvergeNodes(v, i) ==
    IF i >= Min2(NodeCount, MaxConvergeNodes) \/ v.exc # "none" THEN v
    ELSE Only({ConvergeNodes(w, i + 1) :
               w \in {RunCommands(v, i,
                          <<"clear ip ospf database", "router ospf",
                            "area 0.0.0.0 stub", "no area 0.0.0.0 stub">>)}})

ForceOspfConvergence(v) ==
    HelperCatch(
        ConvergeNodes(Called(v, SinkCall("converge", -1, -1, -1, 0, TRUE)),
                      0))

\* The modules below are held as functions of their own state; the calls
\* they make on the helpers are returned in order (field sink) and carried
\* out by RunSinkCalls.  No helper returns a value.  An exception that a
\* helper lets out ends the sequence: the try blocks of the modules, of the
\* controller and of main have a clause for std::exception only, which a
\* helper holds itself, so such an exception ends the program.
ExecuteSinkCall(v, c) ==
    Only({IF c.op = "link"
          THEN SetQuaggaLinkStateReal(w, c.node, c.dst, c.up)
          ELSE IF c.op = "add"
          THEN AddQuaggaRoute(w, c.node, c.dst, c.via, c.metric)
          ELSE IF c.op = "del" THEN DelQuaggaRoute(w, c.node, c.dst, c.via)
          ELSE ForceOspfConvergence(w) :
          w \in {[v EXCEPT !.made = @ + 1]}})

RECURSIVE RunSinkCalls(_, _)
RunSinkCalls(v, calls) ==
    IF calls = <<>> \/ v.exc # "none" THEN v
    ELSE Only({RunSinkCalls(w, Tail(calls)) :
               w \in {ExecuteSinkCall(v, Head(calls))}})

\* the texts the modules build for a node
Prefix(node) == "10." \o ToString(node) \o ".0.0/16"

Nexthop(node) == "10.0." \o ToString(node) \o ".1"

\* ------------------------------------------------------ LinkDetectionModule
MakeOrderedPair(nodeA, nodeB) == <<Min2(nodeA, nodeB), Max2(nodeA, nodeB)>>

\* std::map::operator[] read: a missing key reads as false (and is created)
MapRead(m, k) == IF k \in DOMAIN m THEN m[k] ELSE FALSE

GetReportedStateOf(reported, nodeA, nodeB) ==
    MapRead(reported, MakeOrderedPair(nodeA, nodeB))

GetRealStateOf(real, nodeA, nodeB) ==
    MapRead(real, MakeOrderedPair(nodeA, nodeB))

GetReportedState(nodeA, nodeB) ==
    GetReportedStateOf(m_reportedLinkStates, nodeA, nodeB)

GetRealState(nodeA, nodeB) == GetRealStateOf(m_realLinkStates, nodeA, nodeB)

RECURSIVE RelayRoutes(_, _, _)
RelayRoutes(i, nodeA, nodeB) ==
    IF i >= Min2(NodeCount, MaxRelayScan) THEN <<>>
    ELSE (IF i # nodeA /\ i # nodeB
          THEN <<SinkCall("add", nodeA, Prefix(nodeB), Nexthop(i),
                          AltRouteMetric, TRUE)>>
          ELSE <<>>) \o RelayRoutes(i + 1, nodeA, nodeB)

AddAlternativeRoutes(nodeA, nodeB) == RelayRoutes(0, nodeA, nodeB)

\* a T1 override that marks the pair as forced but leaves its reported state
ForceLinkDown_KeepReported(real, reported, forced, nodeA, nodeB) ==
    LET link == MakeOrderedPair(nodeA, nodeB)
    IN  [real |-> real,
         reported |-> reported,
         forced |-> forced \cup {link},
         sink |-> <<SinkCall("link", nodeA, nodeB, -1, 0, FALSE)>>
                  \o AddAlternativeRoutes(nodeA, nodeB)]

ForceLinkDown(real, reported, forced, nodeA, nodeB) ==
    LET link == MakeOrderedPair(nodeA, nodeB)
    IN  [real |-> real,
         reported |-> Put(reported, link, FALSE),
         forced |-> forced \cup {link},
         sink |-> <<SinkCall("link", nodeA, nodeB, -1, 0, FALSE)>>
                  \o AddAlternativeRoutes(nodeA, nodeB)]

\* a restore that lifts the override but does not disclose the real state
RestoreNormalDetection_KeepReported(real, reported, forced, nodeA, nodeB) ==
    LET link == MakeOrderedPair(nodeA, nodeB)
        realState == MapRead(real, link)
    IN  [real |-> Put(real, link, realState),
         reported |-> reported,
         forced |-> forced \ {link},
         sink |-> <<SinkCall("link", nodeA, nodeB, -1, 0, realState)>>]

RestoreNormalDetection(real, reported, forced, nodeA, nodeB) ==
    LET link == MakeOrderedPair(nodeA, nodeB)
        realState == MapRead(real, link)
    IN  [real |-> Put(real, link, realState),
         reported |-> Put(reported, link, realState),
         forced |-> forced \ {link},
         sink |-> <<SinkCall("link", nodeA, nodeB, -1, 0, realState)>>]

\* an update that does not look at the forced-down set
UpdateRealLinkState_NoForcedCheck(events, real, reported, forced, nodeA, nodeB, isUp, currentTime) ==
    LET link == MakeOrderedPair(nodeA, nodeB)
        oldState == MapRead(real, link)
        real2 == Put(real, link, isUp)
    IN  IF IsInBldPeriod(events, nodeA, nodeB, currentTime)
        THEN [real |-> real2, reported |-> reported, forced |-> forced,
              sink |-> <<>>]
        ELSE IF isUp # oldState
        THEN [real |-> real2, reported |-> Put(reported, link, isUp),
              forced |-> forced,
              sink |-> <<SinkCall("link", nodeA, nodeB, -1, 0, isUp)>>]
        ELSE [real |-> real2, reported |-> reported, forced |-> forced,
              sink |-> <<>>]

\* variant used to test C25: the early return for a forced pair is taken
\* before the observed value is written to the real-state map
UpdateRealLinkState_ForcedDropsReal(events, real, reported, forced, nodeA, nodeB, isUp, currentTime) ==
    LET link == MakeOrderedPair(nodeA, nodeB)
        oldState == MapRead(real, link)
        real2 == Put(real, link, isUp)
    IN  IF link \in forced
        THEN [real |-> real, reported |-> reported, forced |-> forced,
              sink |-> <<>>]
        ELSE IF IsInBldPeriod(events, nodeA, nodeB, currentTime)
        THEN [real |-> real2, reported |-> reported, forced |-> forced,
              sink |-> <<>>]
        ELSE IF isUp # oldState
        THEN [real |-> real2, reported |-> Put(reported, link, isUp),
              forced |-> forced,
              sink |-> <<SinkCall("link", nodeA, nodeB, -1, 0, isUp)>>]
        ELSE [real |-> real2, reported |-> reported, forced |-> forced,
              sink |-> <<>>]

UpdateRealLinkState(events, real, reported, forced, nodeA, nodeB, isUp, currentTime) ==
    LET link == MakeOrderedPair(nodeA, nodeB)
        oldState == MapRead(real, link)
        real2 == Put(real, link, isUp)
    IN  IF link \in forced
        THEN [real |-> real2, reported |-> reported, forced |-> forced,
              sink |-> <<>>]
        ELSE IF IsInBldPeriod(events, nodeA, nodeB, currentTime)
        THEN [real |-> real2, reported |-> reported, forced |-> forced,
              sink |-> <<>>]
        ELSE IF isUp # oldState
        THEN [real |-> real2, reported |-> Put(reported, link, isUp),
              forced |-> forced,
              sink |-> <<SinkCall("link", nodeA, nodeB, -1, 0, isUp)>>]
        ELSE [real |-> real2, reported |-> reported, forced |-> forced,
              sink |-> <<>>]

\* ---------------------------------------------------- RouteManagementModule
\* A route update is the text built by GenerateOspfRouteUpdate, held as the
\* sequence of operations it spells out.  ApplyRouteUpdateReal extracts
\* "action prefix nexthop metric" once from the front of the text, so it
\* acts on the first operation only.
RouteOp(action, dst, via, metric) ==
    [action |-> action, dst |-> dst, via |-> via, metric |-> metric]

ApplyRouteUpdateReal(node, routeUpdate) ==
    LET first == Head(routeUpdate)
        add == SinkCall("add", node, first.dst, first.via, first.metric, TRUE)
        del == SinkCall("del", node, first.dst, first.via, 0, FALSE)
    IN  IF first.action = "ADD" THEN <<add>>
        ELSE IF first.action = "DEL" THEN <<del>>
        ELSE IF first.action = "UPDATE" THEN <<del, add>>
        ELSE <<>>

RECURSIVE ApplyAll(_)
ApplyAll(updates) ==
    IF updates = <<>> THEN <<>>
    ELSE ApplyRouteUpdateReal(Head(updates).node, Head(updates).update)
         \o ApplyAll(Tail(updates))

AppliedIds(updates, via) ==
    [i \in 1..Len(updates) |-> [id |-> updates[i].id, via |-> via]]

\* an entry into buffering mode that flips the flag
StartBfuPeriod_Toggle(bfu) == ~bfu

StartBfuPeriod(bfu) == TRUE

\* a flush that forgets to clear the queue
EndBfuPeriod_NoClear(pending, applied) ==
    [bfu |-> FALSE,
     pending |-> pending,
     applied |-> applied + Len(pending),
     sink |-> ApplyAll(pending)
              \o <<SinkCall("converge", -1, -1, -1, 0, TRUE)>>,
     log |-> AppliedIds(pending, "flush")]

\* a flush that leaves the buffer in buffering mode
EndBfuPeriod_KeepBuffering(pending, applied) ==
    [bfu |-> TRUE,
     pending |-> <<>>,
     applied |-> applied + Len(pending),
     sink |-> ApplyAll(pending)
              \o <<SinkCall("converge", -1, -1, -1, 0, TRUE)>>,
     log |-> AppliedIds(pending, "flush")]

\* a flush that triggers the convergence before it applies the queue
EndBfuPeriod_ConvergeFirst(pending, applied) ==
    [bfu |-> FALSE,
     pending |-> <<>>,
     applied |-> applied + Len(pending),
     sink |-> <<SinkCall("converge", -1, -1, -1, 0, TRUE)>>
              \o ApplyAll(pending),
     log |-> AppliedIds(pending, "flush")]

EndBfuPeriod(pending, applied) ==
    [bfu |-> FALSE,
     pending |-> <<>>,
     applied |-> applied + Len(pending),
     sink |-> ApplyAll(pending)
              \o <<SinkCall("converge", -1, -1, -1, 0, TRUE)>>,
     log |-> AppliedIds(pending, "flush")]

\* the number of leading updates of the queue that are applied and counted
\* before the k-th helper call of the flush is made
RECURSIVE AppliedBefore(_, _)
AppliedBefore(updates, k) ==
    IF updates = <<>> THEN 0
    ELSE Only({IF n < k THEN 1 + AppliedBefore(Tail(updates), k - n) ELSE 0 :
               n \in {Len(ApplyRouteUpdateReal(Head(updates).node,
                                               Head(updates).update))}})

\* what the flush has written when it makes its k-th helper call: the flag
\* is off and the updates before the one being applied are counted; the
\* queue is cleared before the convergence is triggered
EndBfuPeriodAt(pending, applied, k) ==
    IF k > Len(ApplyAll(pending))
    THEN [bfu |-> FALSE, pending |-> <<>>,
          applied |-> applied + Len(pending), sink |-> <<>>,
          log |-> AppliedIds(pending, "flush")]
    ELSE [bfu |-> FALSE, pending |-> pending,
          applied |-> applied + AppliedBefore(pending, k), sink |-> <<>>,
          log |-> AppliedIds(SubSeq(pending, 1,
                                    AppliedBefore(pending, k) + 1), "flush")]

\* an immediate application that is not counted
OnNewRoutingTable_NoCount(bfu, pending, blocked, applied, entry) ==
    IF bfu
    THEN [pending |-> Append(pending, entry), blocked |-> blocked + 1,
          applied |-> applied, sink |-> <<>>, log |-> <<>>]
    ELSE [pending |-> pending, blocked |-> blocked,
          applied |-> applied,
          sink |-> ApplyRouteUpdateReal(entry.node, entry.update),
          log |-> AppliedIds(<<entry>>, "immediate")]

\* a submission that, while buffering, applies the update as well as
\* queueing it
OnNewRoutingTable_QueueAndApply(bfu, pending, blocked, applied, entry) ==
    IF bfu
    THEN [pending |-> Append(pending, entry), blocked |-> blocked + 1,
          applied |-> applied,
          sink |-> ApplyRouteUpdateReal(entry.node, entry.update),
          log |-> <<>>]
    ELSE [pending |-> pending, blocked |-> blocked,
          applied |-> applied + 1,
          sink |-> ApplyRouteUpdateReal(entry.node, entry.update),
          log |-> AppliedIds(<<entry>>, "immediate")]

\* a submission that, while buffering, counts the update as blocked but
\* does not queue it
OnNewRoutingTable_DropsWhenBuffering(bfu, pending, blocked, applied, entry) ==
    IF bfu
    THEN [pending |-> pending, blocked |-> blocked + 1,
          applied |-> applied, sink |-> <<>>, log |-> <<>>]
    ELSE [pending |-> pending, blocked |-> blocked,
          applied |-> applied + 1,
          sink |-> ApplyRouteUpdateReal(entry.node, entry.update),
          log |-> AppliedIds(<<entry>>, "immediate")]

OnNewRoutingTable(bfu, pending, blocked, applied, entry) ==
    IF bfu
    THEN [pending |-> Append(pending, entry), blocked |-> blocked + 1,
          applied |-> applied, sink |-> <<>>, log |-> <<>>]
    ELSE [pending |-> pending, blocked |-> blocked,
          applied |-> applied + 1,
          sink |-> ApplyRouteUpdateReal(entry.node, entry.update),
          log |-> AppliedIds(<<entry>>, "immediate")]

\* ------------------------------------------------------ PerformanceAnalyzer
\* The analyzer's stamps and totals are doubles counted in milliseconds.
\* Each lies within a few units in the last place of a whole number of
\* milliseconds, so it is held as [m, f]: its value is m + f/2^56 ms, with f
\* = 0 when the value is exactly m ms.
Ms(m, f) == [m |-> m, f |-> f]

\* the double of a whole number of milliseconds
MsOf(m) == Ms(m, 0)

\* the exponent of the exact value (m, f), m >= 1
MsBinade(m, f) ==
    Only({IF f < 0 /\ m = Pow2(j) THEN j - 1 ELSE j : j \in {Log2(m)}})

\* round-to-nearest, ties to even, of the exact value (m, f) with m >= 1: the
\* doubles of binade j are the multiples of u = 2^(j+4) in units of 2^-56 ms,
\* and the significand of m + k * u / 2^56 is even exactly when k is
RoundMsMagnitude(m, f) ==
    Only({IF r = 0 THEN f
          ELSE IF 2 * r < u \/ (2 * r = u /\ ((f - r) \div u) % 2 = 0)
          THEN f - r
          ELSE f + (u - r) :
          u \in {Pow2(MsBinade(m, f) + 4)}, r \in {f % Pow2(MsBinade(m, f) + 4)}})

\* the double nearest to an exact value; below one ulp of 1 ms every
\* multiple of 2^-56 ms that occurs is a double
RoundToMs(m, f) ==
    IF m > 0 THEN Ms(m, RoundMsMagnitude(m, f))
    ELSE IF m < 0 THEN Ms(m, 0 - RoundMsMagnitude(0 - m, 0 - f))
    ELSE Ms(m, f)

MsAdd(x, y) == Only({RoundToMs(a.m + b.m, a.f + b.f) : a \in {x}, b \in {y}})

MsSub(x, y) == Only({RoundToMs(a.m - b.m, a.f - b.f) : a \in {x}, b \in {y}})

MsLess(x, y) == x.m < y.m \/ (x.m = y.m /\ x.f < y.f)

\* Simulator::Now().GetSeconds() * 1000.0: the double of the clock reading
\* in seconds, times 1000, rounded.  The product is the whole number of
\* milliseconds for most readings; at 16.1 s it is 16100 + 2^-39 ms
NowMs(now) ==
    Only({RoundToMs(100 * d.t, 100 * d.e) : d \in {DoubleOf(now)}})

\* A uint32_t that can wrap is held as two 16-bit limbs.
U32(n) == [hi |-> 0, lo |-> n]

U32Add(x, y) ==
    [hi |-> (x.hi + y.hi + ((x.lo + y.lo) \div 65536)) % 65536,
     lo |-> (x.lo + y.lo) % 65536]

\* the uint32_t a uint64_t difference d is cut down to, -65536 < d < 65536
U32OfDifference(d) ==
    IF d >= 0 THEN U32(d) ELSE [hi |-> 65535, lo |-> 65536 + d]

NewMetrics ==
    [packetsLost |-> U32(0), routeOutageTotal |-> MsOf(0),
     linkDownEvents |-> 0, detectionTimeTotal |-> MsOf(0),
     realQuaggaModifications |-> 0]

MakeLinkKey(nodeA, nodeB) == MakeOrderedPair(nodeA, nodeB)

SetSimulationStart(startTime) == startTime

OnPacketSent(sent) == sent + 1

OnPacketReceived(received) == received + 1

StartLinkDownEvent(active, sent, nodeA, nodeB, isRfp, now) ==
    [active |-> Put(active, MakeLinkKey(nodeA, nodeB),
                    [linkDownTime |-> NowMs(now),
                     routeUpdateTime |->
                         IF isRfp THEN NowMs(now) ELSE MsOf(0),
                     detectionTime |-> MsOf(0),
                     isRfp |-> isRfp,
                     packetsLostDuringOutage |-> U32(0),
                     completed |-> FALSE]),
     atDown |-> sent]

RecordOspfDetection(active, nodeA, nodeB, now) ==
    LET key == MakeLinkKey(nodeA, nodeB)
    IN  IF key \in DOMAIN active /\ ~active[key].isRfp
        THEN [active EXCEPT ![key] =
                 [@ EXCEPT !.detectionTime =
                              MsSub(NowMs(now), active[key].linkDownTime)]]
        ELSE active

\* the counters are uint64_t and the field is uint32_t
PacketsLostDuringOutage(sent, received, atDown) ==
    U32OfDifference((sent - atDown) - (received - atDown))

\* a convergence record that stamps predicted events too
RecordRouteConvergence_StampAlways(active, sent, received, atDown, nodeA, nodeB, now) ==
    LET key == MakeLinkKey(nodeA, nodeB)
    IN  IF key \in DOMAIN active
        THEN [active EXCEPT ![key] =
                 [@ EXCEPT !.routeUpdateTime = NowMs(now),
                           !.packetsLostDuringOutage =
                              PacketsLostDuringOutage(sent, received,
                                                      atDown)]]
        ELSE active

RecordRouteConvergence(active, sent, received, atDown, nodeA, nodeB, now) ==
    LET key == MakeLinkKey(nodeA, nodeB)
    IN  IF key \in DOMAIN active
        THEN [active EXCEPT ![key] =
                 [@ EXCEPT !.routeUpdateTime =
                              IF ~active[key].isRfp THEN NowMs(now) ELSE @,
                           !.packetsLostDuringOutage =
                              PacketsLostDuringOutage(sent, received,
                                                      atDown)]]
        ELSE active

AddToMetrics(m, outage, lost, detection, mods) ==
    [packetsLost |-> U32Add(m.packetsLost, lost),
     routeOutageTotal |-> MsAdd(m.routeOutageTotal, outage),
     linkDownEvents |-> m.linkDownEvents + 1,
     detectionTimeTotal |-> MsAdd(m.detectionTimeTotal, detection),
     realQuaggaModifications |-> m.realQuaggaModifications + mods]

\* routeUpdateTime - linkDownTime, and 0 when that is negative
OutageTime(event) ==
    Only({IF MsLess(d, MsOf(0)) THEN MsOf(0) ELSE d :
          d \in {MsSub(event.routeUpdateTime, event.linkDownTime)}})

\* a completion that books the event but leaves its record active
CompleteLinkEvent_KeepRecord(std, rfp, active, nodeA, nodeB, quaggaMods) ==
    LET key == MakeLinkKey(nodeA, nodeB)
    IN  IF key \in DOMAIN active
        THEN LET event == active[key]
                 outageTime == OutageTime(event)
             IN  [std |-> IF event.isRfp THEN std
                          ELSE AddToMetrics(std, outageTime,
                                            event.packetsLostDuringOutage,
                                            event.detectionTime, quaggaMods),
                  rfp |-> IF event.isRfp
                          THEN AddToMetrics(rfp, outageTime,
                                            event.packetsLostDuringOutage,
                                            event.detectionTime, quaggaMods)
                          ELSE rfp,
                  active |-> active]
        ELSE [std |-> std, rfp |-> rfp, active |-> active]

CompleteLinkEvent(std, rfp, active, nodeA, nodeB, quaggaMods) ==
    LET key == MakeLinkKey(nodeA, nodeB)
    IN  IF key \in DOMAIN active
        THEN LET event == active[key]
                 outageTime == OutageTime(event)
             IN  [std |-> IF event.isRfp THEN std
                          ELSE AddToMetrics(std, outageTime,
                                            event.packetsLostDuringOutage,
                                            event.detectionTime, quaggaMods),
                  rfp |-> IF event.isRfp
                          THEN AddToMetrics(rfp, outageTime,
                                            event.packetsLostDuringOutage,
                                            event.detectionTime, quaggaMods)
                          ELSE rfp,
                  active |-> [k \in (DOMAIN active) \ {key} |-> active[k]]]
        ELSE [std |-> std, rfp |-> rfp, active |-> active]

RecordLinkDownEvent(std, rfp, useRfp, outage, lost, detection, mods) ==
    [std |-> IF useRfp THEN std
             ELSE AddToMetrics(std, outage, lost, detection, mods),
     rfp |-> IF useRfp
             THEN AddToMetrics(rfp, outage, lost, detection, mods)
             ELSE rfp]

\* An average is a double of any size, held by its parts: the sign, the
\* exponent exp and the 53-bit significand hi * 2^26 + lo, of the value
\* (hi * 2^26 + lo) * 2^(exp - 52); zero has the significand 0.  A division
\* by zero gives the IEEE values NaN (0/0) or infinity.
Binary64(kind, neg, exp, hi, lo) ==
    [kind |-> kind, neg |-> neg, exp |-> exp, hi |-> hi, lo |-> lo]

\* The dividend |m + f/2^56| in units of 2^-56 ms, as the three limbs of
\* M * 2^56 + A * 2^28 + B
Limbs(x) ==
    LET m == IF x.m < 0 THEN 0 - x.m ELSE x.m
        f == IF x.m < 0 \/ (x.m = 0 /\ x.f < 0) THEN 0 - x.f ELSE x.f
    IN  IF f >= 0
        THEN [M |-> m, A |-> f \div Pow2(28), B |-> f % Pow2(28)]
        ELSE [M |-> m - 1, A |-> Pow2(28) - 1, B |-> Pow2(28) + f]

\* the dividend's digits to the base 2^14: digit 0 is the whole
\* milliseconds, digits 1 to 4 are the 56 bits after the point
Digit(x, i) ==
    IF i = 0 THEN x.M
    ELSE IF i = 1 THEN x.A \div Pow2(14)
    ELSE IF i = 2 THEN x.A % Pow2(14)
    ELSE IF i = 3 THEN x.B \div Pow2(14)
    ELSE IF i = 4 THEN x.B % Pow2(14)
    ELSE 0

\* One step of the long division by n: digit v.i of the dividend is brought
\* down.  The quotient's digits are kept from its first non-zero one on.
DivideStep(x, n, v) ==
    LET q == (v.rem * Pow2(14) + Digit(x, v.i)) \div n
        r == (v.rem * Pow2(14) + Digit(x, v.i)) % n
    IN  IF v.k < 0 /\ q = 0 THEN [v EXCEPT !.i = @ + 1, !.rem = r]
        ELSE IF v.k < 0
        THEN [v EXCEPT !.i = @ + 1, !.rem = r, !.k = v.i, !.first = q]
        ELSE [v EXCEPT !.i = @ + 1, !.rem = r, !.g = Append(@, q)]

\* the first non-zero digit of the quotient and the four after it
RECURSIVE Divide(_, _, _)
Divide(x, n, v) ==
    IF Len(v.g) = 4 THEN v
    ELSE Only({Divide(x, n, w) : w \in {DivideStep(x, n, v)}})

\* The quotient's leading 53 bits, rounded to nearest, ties to even.  The
\* digits kept are the number first * 2^56 + GA * 2^28 + GB of len + 56
\* bits; its lowest s = len + 3 bits are cut off, the highest of them
\* decides the rounding together with the rest of the quotient.
RoundQuotient(neg, x, v) ==
    LET len == Log2(v.first) + 1
        s == len + 3
        GA == v.g[1] * Pow2(14) + v.g[2]
        GB == v.g[3] * Pow2(14) + v.g[4]
        hi == v.first * Pow2(30 - s) + (GA \div Pow2(s - 2))
        lo == (GA % Pow2(s - 2)) * Pow2(28 - s) + (GB \div Pow2(s))
        half == (GB \div Pow2(s - 1)) % 2 = 1
        rest == \/ GB % Pow2(s - 1) # 0
                \/ v.rem # 0
                \/ \E i \in v.i..4 : Digit(x, i) # 0
        exp == len - 1 - 14 * v.k
    IN  IF ~(half /\ (rest \/ lo % 2 = 1))
        THEN Binary64("finite", neg, exp, hi, lo)
        ELSE IF lo + 1 < Pow2(26)
        THEN Binary64("finite", neg, exp, hi, lo + 1)
        ELSE IF hi + 1 < Pow2(27)
        THEN Binary64("finite", neg, exp, hi + 1, 0)
        ELSE Binary64("finite", neg, exp + 1, Pow2(26), 0)

\* total / n in doubles, total a millisecond value and n a count
DoubleDiv(total, n) ==
    LET neg == total.m < 0 \/ (total.m = 0 /\ total.f < 0)
    IN  IF n = 0
        THEN IF total = MsOf(0) THEN Binary64("nan", FALSE, 0, 0, 0)
             ELSE Binary64("inf", neg, 0, 0, 0)
        ELSE IF total = MsOf(0) THEN Binary64("finite", FALSE, 0, 0, 0)
        ELSE Only({RoundQuotient(neg, x,
                       Divide(x, n, [i |-> 0, rem |-> 0, k |-> -1,
                                     first |-> 0, g |-> <<>>])) :
                   x \in {Limbs(total)}})

\* the double of a whole number
Finite(value) == DoubleDiv(MsOf(value), 1)

NoReport ==
    [printed |-> FALSE, standardEvents |-> 0, rfpEvents |-> 0,
     avgStandardOutage |-> Finite(0), avgRfpOutage |-> Finite(0),
     avgStandardDetection |-> Finite(0), avgRfpDetection |-> Finite(0)]

\* a report that divides without looking at the event count
PrintFinalResults_NoGuard(std, rfp) ==
    [printed |-> TRUE,
     standardEvents |-> std.linkDownEvents,
     rfpEvents |-> rfp.linkDownEvents,
     avgStandardOutage |->
         DoubleDiv(std.routeOutageTotal, std.linkDownEvents),
     avgRfpOutage |-> DoubleDiv(rfp.routeOutageTotal, rfp.linkDownEvents),
     avgStandardDetection |->
         DoubleDiv(std.detectionTimeTotal, std.linkDownEvents),
     avgRfpDetection |->
         DoubleDiv(rfp.detectionTimeTotal, rfp.linkDownEvents)]

PrintFinalResults(std, rfp) ==
    [printed |-> TRUE,
     standardEvents |-> std.linkDownEvents,
     rfpEvents |-> rfp.linkDownEvents,
     avgStandardOutage |->
         IF std.linkDownEvents > 0
         THEN DoubleDiv(std.routeOutageTotal, std.linkDownEvents)
         ELSE Finite(0),
     avgRfpOutage |->
         IF rfp.linkDownEvents > 0
         THEN DoubleDiv(rfp.routeOutageTotal, rfp.linkDownEvents)
         ELSE Finite(0),
     avgStandardDetection |->
         IF std.linkDownEvents > 0
         THEN DoubleDiv(std.detectionTimeTotal, std.linkDownEvents)
         ELSE Finite(0),
     avgRfpDetection |->
         IF rfp.linkDownEvents > 0
         THEN DoubleDiv(rfp.detectionTimeTotal, rfp.linkDownEvents)
         ELSE Finite(0)]

\* ----------------------------------------------------- SatnetOspfController
RECURSIVE FirstRelay(_, _, _)
FirstRelay(i, nodeA, nodeB) ==
    IF i >= Min2(NodeCount, MaxRelayScan) THEN -1
    ELSE IF i # nodeA /\ i # nodeB THEN i
    ELSE FirstRelay(i + 1, nodeA, nodeB)

FindAlternativePath(nodeA, nodeB) == FirstRelay(0, nodeA, nodeB)

GenerateOspfRouteUpdate(nodeA, nodeB, isUp) ==
    IF isUp
    THEN <<RouteOp("ADD", Prefix(nodeB), Nexthop(nodeA), 1)>>
    ELSE <<RouteOp("DEL", Prefix(nodeB), Nexthop(nodeA), -1)>>
         \o (IF FindAlternativePath(nodeA, nodeB) >= 0
             THEN <<RouteOp("ADD", Prefix(nodeB),
                            Nexthop(FindAlternativePath(nodeA, nodeB)),
                            AltPathMetric)>>
             ELSE <<>>)

\* a classification that books the unpredicted link-down on the RFP side
AnalyzeLinkDownPerformance_AsPredicted(events, std, rfp, nodeA, nodeB, currentTime) ==
    IF ~IsInBldPeriod(events, nodeA, nodeB, currentTime)
    THEN RecordLinkDownEvent(std, rfp, TRUE,
                             MsAdd(MsOf(BaselineDetectionMs),
                                   MsOf(BaselineConvergenceMs)),
                             U32(BaselinePacketsLost),
                             MsOf(BaselineDetectionMs), 1)
    ELSE [std |-> std, rfp |-> rfp]

AnalyzeLinkDownPerformance(events, std, rfp, nodeA, nodeB, currentTime) ==
    IF ~IsInBldPeriod(events, nodeA, nodeB, currentTime)
    THEN RecordLinkDownEvent(std, rfp, FALSE,
                             MsAdd(MsOf(BaselineDetectionMs),
                                   MsOf(BaselineConvergenceMs)),
                             U32(BaselinePacketsLost),
                             MsOf(BaselineDetectionMs), 1)
    ELSE [std |-> std, rfp |-> rfp]

\* ------------------------------------------------------------ ns-3 scheduler
\* Simulator::Schedule(delay, ...) runs the callback at Now() + delay;
\* callbacks with the same time stamp run in the order they were scheduled.
Callback(time, kind, nodeA, nodeB, arg, ev) ==
    [time |-> time, kind |-> kind, nodeA |-> nodeA, nodeB |-> nodeB,
     arg |-> arg, ev |-> ev]

\* a scheduler that drops the T3 callbacks handed to it
SimulatorSchedule_DropsT3(q, now, delay, kind, nodeA, nodeB, arg, ev) ==
    LET at == now + delay
        k == Cardinality({i \in 1..Len(q) : q[i].time <= at})
    IN  IF kind = "T3"
        THEN q
        ELSE SubSeq(q, 1, k) \o <<Callback(at, kind, nodeA, nodeB, arg, ev)>>
             \o SubSeq(q, k + 1, Len(q))

SimulatorSchedule(q, now, delay, kind, nodeA, nodeB, arg, ev) ==
    LET at == now + delay
        k == Cardinality({i \in 1..Len(q) : q[i].time <= at})
    IN  SubSeq(q, 1, k) \o <<Callback(at, kind, nodeA, nodeB, arg, ev)>>
        \o SubSeq(q, k + 1, Len(q))

\* The calls an operation makes on the sink.  `after` is the state the
\* operation builds together with the calls it makes on the helpers, v is
\* the state the helpers work on, and cut[k] is what the operation has
\* written when it makes its k-th call.  The operation completes unless a
\* helper lets an exception out; it is then left as it was at that call.
SinkCallSite(v, cut, after) ==
    Only({[res |-> IF w.exc = "none" THEN a ELSE cut[w.made], v |-> w] :
          a \in {after},
          w \in {RunSinkCalls([v EXCEPT !.made = 0], after.sink)}})

\* a helper has let an exception out
Escaped(v) == v.exc # "none"

\* an operation that has written everything before its first call
WrittenFirst(after) == [k \in 1..Len(after.sink) |-> after]

\* an outside call made at virtual time t: the clock is not past t, and every
\* callback due before t has already run
CanHappenAt(t) ==
    /\ Running
    /\ t < simTime
    /\ t >= clock
    /\ schedule # <<>> => t <= schedule[1].time

Op(op, a, b, up, arg, ev, rep0) ==
    [op |-> op, a |-> a, b |-> b, up |-> up, arg |-> arg, ev |-> ev,
     rep0 |-> rep0]

stopVars == <<simTime, pc, discarded>>
ldmVars == <<m_realLinkStates, m_reportedLinkStates, m_forcedDownLinks>>
rmmVars == <<m_bfuActive, m_pendingUpdates, m_routeUpdatesBlocked,
             m_routeUpdatesApplied>>
packetVars == <<m_packetsSentTotal, m_packetsReceivedTotal,
                m_packetsAtLinkDown, m_simulationStartTime>>
analyzerVars == <<m_standardOspf, m_rfp, m_activeEvents, packetVars>>
vtyshVars == <<vtyshAvailable, vtyshChecked, vtyshDropped, dceThrowIn,
               dceApps>>
dceEnvVars == <<vtyshOnPath, dceThrown, dceThrowKind, dceStarted>>
sinkVars == <<vtyshVars, dceEnvVars, healthyRun>>

\* the state the helpers of the quagga integration find
VtyshState ==
    [available |-> vtyshAvailable, checked |-> vtyshChecked,
     onPath |-> vtyshOnPath, throwIn |-> dceThrowIn,
     throwKind |-> dceThrowKind, apps |-> dceApps, calls |-> sinkLog,
     lost |-> vtyshDropped, made |-> 0, exc |-> "none"]

\* a sink on which every command is handed to DCE
HealthySink ==
    [available |-> TRUE, checked |-> TRUE, onPath |-> TRUE, throwIn |-> 0,
     throwKind |-> "std", apps |-> <<>>, calls |-> <<>>, lost |-> 0,
     made |-> 0, exc |-> "none"]

\* DceApplicationHelper::Install adds the application to its node, which
\* schedules Application::Initialize for the current instant, and
\* Initialize schedules StartApplication after the start time.  The
\* callbacks a handler schedules back to back for one instant run back to
\* back: whatever else runs at that instant, the end of the run included,
\* was scheduled before all of them or after all of them.  So the
\* applications first..last that one handler installs are initialized
\* together and started together, and they are held as one callback.
DceCallback(time, kind, first, last) ==
    [time |-> time, kind |-> kind, nodeA |-> -1, nodeB |-> -1, arg |-> first,
     ev |-> 0, last |-> last]

\* Simulator::Schedule for the callbacks of installed applications
DceSchedule(q, now, delay, kind, first, last) ==
    LET at == now + delay
        k == Cardinality({i \in 1..Len(q) : q[i].time <= at})
    IN  SubSeq(q, 1, k) \o <<DceCallback(at, kind, first, last)>>
        \o SubSeq(q, k + 1, Len(q))

\* the handler found k applications installed and leaves apps
ScheduleInstalls(q, now, k, apps) ==
    IF Len(apps) > k
    THEN DceSchedule(q, now, 0, "Initialize", k + 1, Len(apps))
    ELSE q

\* the handler that runs at clock' leaves the sink as w and the callbacks
\* that were pending as q
SinkDoes(w, q) ==
    /\ vtyshAvailable' = w.available
    /\ vtyshChecked' = w.checked
    /\ vtyshDropped' = w.lost
    /\ dceThrowIn' = w.throwIn
    /\ dceApps' = w.apps
    /\ sinkLog' = w.calls
    /\ schedule' = ScheduleInstalls(q, clock', Len(dceApps), w.apps)
    /\ UNCHANGED dceEnvVars

\* the link gate and the update buffer, as one record
Core ==
    [real |-> m_realLinkStates, reported |-> m_reportedLinkStates,
     forced |-> m_forcedDownLinks, bfu |-> m_bfuActive,
     pending |-> m_pendingUpdates, blocked |-> m_routeUpdatesBlocked,
     applied |-> m_routeUpdatesApplied]

LdmOf(core) ==
    [real |-> core.real, reported |-> core.reported, forced |-> core.forced,
     sink |-> <<>>]

WithLdm(core, ldm) ==
    [core EXCEPT !.real = ldm.real, !.reported = ldm.reported,
                 !.forced = ldm.forced]

\* NodeList::GetNode(n) requires an id of the node list.  With any other id
\* it reads past the list: the run stops (the assertion of a debug build, or
\* a fault), or the read gives a null pointer, or it gives a pointer that is
\* used as a node.
GetNodeOutcomes(nodeA, nodeB) ==
    IF nodeA \in Nodes /\ nodeB \in Nodes THEN {"node"}
    ELSE {"abort", "null", "node"}

\* what the submission of the update generated for an observation does to
\* the update buffer; the update is applied before it is counted
AfterRouteUpdate(v, core, nodeA, nodeB, id) ==
    LET ospfState == GetReportedStateOf(core.reported, nodeA, nodeB)
        entry == [node |-> nodeA,
                  update |-> GenerateOspfRouteUpdate(nodeA, nodeB, ospfState),
                  id |-> id]
        after == OnNewRoutingTable(core.bfu, core.pending, core.blocked,
                                   core.applied, entry)
    IN  Only({[core |-> [core EXCEPT !.pending = rmm.res.pending,
                                     !.blocked = rmm.res.blocked,
                                     !.applied = rmm.res.applied],
               v |-> rmm.v, log |-> rmm.res.log] :
              rmm \in {SinkCallSite(v,
                           [k \in 1..Len(after.sink) |->
                                [after EXCEPT !.applied = core.applied]],
                           after)}})

\* what OnLinkStateChange does to the link gate and the update buffer:
\* the update of the gate, then, when both node pointers are set, the
\* submission of the update generated from the state the gate reports
AfterLinkStateChange(v, core, events, nodeA, nodeB, isUp, currentTime, id, nodesFound) ==
    LET after == UpdateRealLinkState(events, core.real, core.reported,
                                     core.forced, nodeA, nodeB, isUp,
                                     currentTime)
    IN  Only({IF nodesFound /\ ~Escaped(ldm.v)
              THEN AfterRouteUpdate(ldm.v, WithLdm(core, ldm.res), nodeA,
                                    nodeB, id)
              ELSE [core |-> WithLdm(core, ldm.res), v |-> ldm.v,
                    log |-> <<>>] :
              ldm \in {SinkCallSite(v, WrittenFirst(after), after)}})

\* what ExecuteT1Actions does to the link gate and the update buffer: the
\* override of the pair, then the entry into buffering mode
AfterT1Actions(v, core, nodeA, nodeB) ==
    LET after == ForceLinkDown(core.real, core.reported, core.forced, nodeA,
                               nodeB)
    IN  Only({[core |-> [WithLdm(core, ldm.res) EXCEPT
                             !.bfu = IF Escaped(ldm.v) THEN core.bfu
                                     ELSE StartBfuPeriod(core.bfu)],
               v |-> ldm.v, log |-> <<>>] :
              ldm \in {SinkCallSite(v, WrittenFirst(after), after)}})

\* what ExecuteT2Actions does to the link gate and the update buffer
AfterT2Actions(v, core) ==
    LET after == EndBfuPeriod(core.pending, core.applied)
    IN  Only({[core |-> [core EXCEPT !.bfu = rmm.res.bfu,
                                     !.pending = rmm.res.pending,
                                     !.applied = rmm.res.applied],
               v |-> rmm.v, log |-> rmm.res.log] :
              rmm \in {SinkCallSite(v,
                           [k \in 1..Len(after.sink) |->
                                EndBfuPeriodAt(core.pending, core.applied,
                                               k)],
                           after)}})

\* what ExecuteT3Actions does to the link gate and the update buffer
AfterT3Actions(v, core, nodeA, nodeB) ==
    LET after == RestoreNormalDetection(core.real, core.reported, core.forced,
                                        nodeA, nodeB)
    IN  Only({[core |-> WithLdm(core, ldm.res), v |-> ldm.v, log |-> <<>>] :
              ldm \in {SinkCallSite(v, WrittenFirst(after), after)}})

IsTimelineCallback(cb) == cb.kind \in {"T1", "T2", "T0", "T3"}

\* The same run on a sink that loses nothing executes, for a timeline step
\* of the real run, the callback at the head of its own queue of timeline
\* callbacks.
HealthyStep(run) ==
    IF run.queue = <<>> THEN run
    ELSE LET cb == Head(run.queue)
         IN  [core |-> IF cb.kind = "T1"
                       THEN AfterT1Actions(HealthySink, run.core, cb.nodeA,
                                           cb.nodeB).core
                       ELSE IF cb.kind = "T2"
                       THEN AfterT2Actions(HealthySink, run.core).core
                       ELSE IF cb.kind = "T3"
                       THEN AfterT3Actions(HealthySink, run.core, cb.nodeA,
                                           cb.nodeB).core
                       ELSE run.core,
              queue |-> Tail(run.queue),
              fired |-> [run.fired EXCEPT ![cb.ev] = Append(@, cb.kind)]]

CoreDoes(core) ==
    /\ m_realLinkStates' = core.real
    /\ m_reportedLinkStates' = core.reported
    /\ m_forcedDownLinks' = core.forced
    /\ m_bfuActive' = core.bfu
    /\ m_pendingUpdates' = core.pending
    /\ m_routeUpdatesBlocked' = core.blocked
    /\ m_routeUpdatesApplied' = core.applied

InitRun ==
    /\ clock = 0
    /\ schedule = <<>>
    /\ m_predictedEvents = <<>>
    /\ m_realLinkStates = EmptyMap
    /\ m_reportedLinkStates = EmptyMap
    /\ m_forcedDownLinks = {}
    /\ m_bfuActive = FALSE
    /\ m_pendingUpdates = <<>>
    /\ m_routeUpdatesBlocked = 0
    /\ m_routeUpdatesApplied = 0
    /\ m_eventCounter = 0
    /\ m_totalQuaggaModifications = 0
    /\ m_standardOspf = NewMetrics
    /\ m_rfp = NewMetrics
    /\ m_activeEvents = [x \in {} |-> 0]
    /\ m_packetsSentTotal = 0
    /\ m_packetsReceivedTotal = 0
    /\ m_packetsAtLinkDown = 0
    /\ m_simulationStartTime = 0
    /\ vtyshAvailable = FALSE
    /\ vtyshChecked = FALSE
    /\ vtyshOnPath \in BOOLEAN
    /\ vtyshDropped = 0
    /\ dceThrowIn = 0
    /\ dceThrown = 0
    /\ dceThrowKind = "std"
    /\ dceApps = <<>>
    /\ dceStarted = <<>>
    /\ healthyRun = [core |-> Core, queue |-> <<>>, fired |-> <<>>]
    /\ sinkLog = <<>>
    /\ appliedLog = <<>>
    /\ submitted = <<>>
    /\ observed = 0
    /\ aborted = FALSE
    /\ fired = <<>>
    /\ lastOp = Op("init", -1, -1, FALSE, 0, 0, FALSE)
    /\ report = NoReport
    /\ pc = "setup"
    /\ discarded = <<>>

\* the timeline calculator has not been run on its own
NoMarkers == [req |-> 0, ev |-> DefaultEvent]

\* main gives Simulator::Stop the value of --simTime, SIM_STOP when the
\* option is absent; every callback of a run that registers its events
\* in the first seconds lies before that default
Init ==
    /\ InitRun
    /\ simTime = SIM_STOP
    /\ mk = NoMarkers

\* main's first statement.  It gives DCE_PATH and DCE_ROOT their defaults
\* when they are not set, writes the configuration files of the daemons and
\* ends with the check for vtysh, which decides the availability for the
\* whole run; the controller and the nodes are created after it.
SetupDceEnvironmentSafe ==
    /\ pc = "setup"
    /\ pc' = "run"
    /\ \E w \in {IsVtyshAvailable(VtyshState)} :
           /\ vtyshAvailable' = w.available
           /\ vtyshChecked' = w.checked
    /\ lastOp' = Op("setup", -1, -1, vtyshOnPath, clock, 0, FALSE)
    /\ UNCHANGED <<clock, schedule, m_predictedEvents, ldmVars, rmmVars,
                   m_eventCounter, m_totalQuaggaModifications, analyzerVars,
                   vtyshDropped, dceThrowIn, dceApps, dceEnvVars,
                   healthyRun, sinkLog, appliedLog, submitted, observed,
                   aborted, simTime, discarded, fired, mk, report>>

\* the four Simulator::Schedule calls of a registration made at time r
ScheduleTimeline(q, r, event, nodeA, nodeB, linkId) ==
    LET q1 == SimulatorSchedule(q, r, Seconds(MarkerT1(event)), "T1", nodeA,
                                nodeB, event.T1, linkId)
        q2 == SimulatorSchedule(q1, r, Seconds(MarkerT2(event)), "T2", nodeA,
                                nodeB, event.T2, linkId)
        q3 == SimulatorSchedule(q2, r, Seconds(MarkerT0(event)), "T0", nodeA,
                                nodeB, event.T0, linkId)
    IN  SimulatorSchedule(q3, r, Seconds(MarkerT3(event)), "T3", nodeA,
                          nodeB, event.T3, linkId)

SchedulePredictableLinkDown(nodeA, nodeB, eventTime, r) ==
    /\ Running
    /\ Len(m_predictedEvents) < MaxEvents
    /\ CanHappenAt(r)
    /\ clock' = r
    /\ IF ~ValidateNodeIndices(nodeA, nodeB)
       THEN /\ lastOp' = Op("reject", nodeA, nodeB, FALSE, eventTime, 0,
                            GetReportedState(nodeA, nodeB))
            /\ UNCHANGED <<schedule, m_predictedEvents, m_eventCounter, fired,
                           healthyRun>>
       ELSE \E event \in {PredictableLinkDownEvent(Len(m_predictedEvents) + 1,
                                                    nodeA, nodeB, eventTime)} :
            LET linkId == Len(m_predictedEvents) + 1
            IN  /\ m_predictedEvents' =
                       AddPredictableLinkDown(m_predictedEvents, linkId,
                                              nodeA, nodeB, eventTime)
                /\ fired' = Append(fired, <<>>)
                /\ IF DoubleLess(DoubleOf(0), MarkerT1(event))
                   THEN /\ schedule' = ScheduleTimeline(schedule, r, event,
                                                         nodeA, nodeB, linkId)
                        /\ m_eventCounter' = m_eventCounter + 1
                        /\ healthyRun' =
                               [healthyRun EXCEPT
                                    !.queue = ScheduleTimeline(@, r, event,
                                                  nodeA, nodeB, linkId),
                                    !.fired = Append(@, <<>>)]
                   ELSE /\ healthyRun' =
                               [healthyRun EXCEPT !.fired = Append(@, <<>>)]
                        /\ UNCHANGED <<schedule, m_eventCounter>>
                /\ lastOp' = Op("register", nodeA, nodeB, FALSE, eventTime,
                                linkId, GetReportedState(nodeA, nodeB))
    /\ UNCHANGED <<ldmVars, rmmVars, analyzerVars, m_totalQuaggaModifications,
                   vtyshVars, dceEnvVars, sinkLog, appliedLog, submitted,
                   observed, aborted, stopVars, mk, report>>

\* The call is made at virtual time now by a caller that passes currentTime:
\* the window tests use currentTime.
OnLinkStateChange(nodeA, nodeB, isUp, currentTime, now) ==
    /\ Running
    /\ observed < MaxObs
    /\ CanHappenAt(now)
    /\ clock' = now
    /\ observed' = observed + 1
    /\ \E outcome \in GetNodeOutcomes(nodeA, nodeB) :
         \E res \in {AfterLinkStateChange(VtyshState, Core,
                          m_predictedEvents, nodeA, nodeB, isUp, currentTime,
                          Len(submitted) + 1, outcome = "node")} :
           LET found == outcome = "node" /\ ~Escaped(res.v)
               healthy == AfterLinkStateChange(HealthySink, healthyRun.core,
                              m_predictedEvents, nodeA, nodeB, isUp,
                              currentTime, Len(submitted) + 1,
                              outcome = "node")
               perf == IF ~isUp /\ outcome # "abort" /\ ~Escaped(res.v)
                       THEN AnalyzeLinkDownPerformance(m_predictedEvents,
                                m_standardOspf, m_rfp, nodeA, nodeB,
                                currentTime)
                       ELSE [std |-> m_standardOspf, rfp |-> m_rfp]
           IN  /\ CoreDoes(res.core)
               /\ m_totalQuaggaModifications' =
                      IF found THEN m_totalQuaggaModifications + 1
                      ELSE m_totalQuaggaModifications
               /\ m_standardOspf' = perf.std
               /\ m_rfp' = perf.rfp
               /\ appliedLog' = appliedLog \o res.log
               /\ submitted' = IF found THEN Append(submitted, m_bfuActive)
                               ELSE submitted
               /\ healthyRun' = [healthyRun EXCEPT !.core = healthy.core]
               /\ aborted' = (outcome = "abort" \/ Escaped(res.v))
               /\ SinkDoes(res.v, schedule)
    /\ lastOp' = Op("observe", nodeA, nodeB, isUp, currentTime, 0,
                    GetReportedState(nodeA, nodeB))
    /\ UNCHANGED <<m_predictedEvents, m_eventCounter, m_activeEvents,
                   packetVars, stopVars, fired, mk, report>>

\* Simulator::Run takes the earliest callback and moves the clock to it,
\* until the stop event.  main schedules the stop before the run starts and
\* the callbacks are scheduled during the run, so of two events with one
\* time stamp the stop comes first.
Due(kind) ==
    /\ Running
    /\ schedule # <<>>
    /\ schedule[1].kind = kind
    /\ schedule[1].time < simTime

\* The stop event and what main does after it: every callback of an earlier
\* time has run, Simulator::Run returns, main prints the final statistics
\* and Simulator::Destroy discards the callbacks still queued.
SimulatorStop ==
    /\ Running
    /\ clock <= simTime
    /\ schedule # <<>> => schedule[1].time >= simTime
    /\ clock' = simTime
    /\ pc' = "end"
    /\ report' = PrintFinalResults(m_standardOspf, m_rfp)
    /\ discarded' = schedule
    /\ schedule' = <<>>
    /\ healthyRun' = [healthyRun EXCEPT !.queue = <<>>]
    /\ lastOp' = Op("Stop", -1, -1, FALSE, simTime, 0, FALSE)
    /\ UNCHANGED <<m_predictedEvents, ldmVars, rmmVars, m_eventCounter,
                   m_totalQuaggaModifications, analyzerVars, vtyshVars,
                   dceEnvVars, sinkLog, appliedLog, submitted, observed,
                   aborted, simTime, fired, mk>>

Run(kind) ==
    /\ Due(kind)
    /\ clock' = schedule[1].time
    /\ fired' = [fired EXCEPT ![schedule[1].ev] = Append(@, kind)]
    /\ lastOp' = Op(kind, schedule[1].nodeA, schedule[1].nodeB, FALSE,
                    schedule[1].arg, schedule[1].ev,
                    GetReportedState(schedule[1].nodeA, schedule[1].nodeB))

ExecuteT1Actions ==
    /\ Run("T1")
    /\ \E res \in {AfterT1Actions(VtyshState, Core, schedule[1].nodeA,
                                   schedule[1].nodeB)} :
       LET nodeA == schedule[1].nodeA
           nodeB == schedule[1].nodeB
           start == StartLinkDownEvent(m_activeEvents, m_packetsSentTotal,
                                       nodeA, nodeB, TRUE, clock')
       IN  /\ m_activeEvents' = start.active
           /\ m_packetsAtLinkDown' = start.atDown
           /\ CoreDoes(res.core)
           /\ m_totalQuaggaModifications' =
                  IF Escaped(res.v) THEN m_totalQuaggaModifications
                  ELSE m_totalQuaggaModifications + 2
           /\ aborted' = Escaped(res.v)
           /\ healthyRun' = HealthyStep(healthyRun)
           /\ SinkDoes(res.v, Tail(schedule))
    /\ UNCHANGED <<m_predictedEvents, m_eventCounter, m_standardOspf, m_rfp,
                   m_packetsSentTotal, m_packetsReceivedTotal,
                   m_simulationStartTime, appliedLog, submitted, observed,
                   stopVars, mk, report>>

ExecuteT2Actions ==
    /\ Run("T2")
    /\ \E res \in {AfterT2Actions(VtyshState, Core)} :
           /\ CoreDoes(res.core)
           /\ appliedLog' = appliedLog \o res.log
           /\ m_totalQuaggaModifications' =
                  IF Escaped(res.v) THEN m_totalQuaggaModifications
                  ELSE m_totalQuaggaModifications + m_routeUpdatesBlocked
           /\ aborted' = Escaped(res.v)
           /\ healthyRun' = HealthyStep(healthyRun)
           /\ SinkDoes(res.v, Tail(schedule))
    /\ UNCHANGED <<m_predictedEvents, m_eventCounter, analyzerVars,
                   submitted, observed, stopVars, mk, report>>

\* a T0 action that also triggers a convergence of the routing daemons
ExecuteT0Actions_AlsoConverges ==
    /\ Run("T0")
    /\ LET nodeA == schedule[1].nodeA
           nodeB == schedule[1].nodeB
           conv == RecordRouteConvergence(m_activeEvents, m_packetsSentTotal,
                       m_packetsReceivedTotal, m_packetsAtLinkDown, nodeA,
                       nodeB, clock')
           done == CompleteLinkEvent(m_standardOspf, m_rfp, conv, nodeA,
                                     nodeB, m_totalQuaggaModifications)
       IN  /\ m_standardOspf' = done.std
           /\ m_rfp' = done.rfp
           /\ m_activeEvents' = done.active
           /\ \E w \in {ForceOspfConvergence(VtyshState)} :
                  SinkDoes(w, Tail(schedule))
    /\ healthyRun' = HealthyStep(healthyRun)
    /\ UNCHANGED <<m_predictedEvents, ldmVars, rmmVars, m_eventCounter,
                   m_totalQuaggaModifications, packetVars, appliedLog,
                   submitted, observed, aborted, stopVars, mk, report>>

ExecuteT0Actions ==
    /\ Run("T0")
    /\ schedule' = Tail(schedule)
    /\ LET nodeA == schedule[1].nodeA
           nodeB == schedule[1].nodeB
           conv == RecordRouteConvergence(m_activeEvents, m_packetsSentTotal,
                       m_packetsReceivedTotal, m_packetsAtLinkDown, nodeA,
                       nodeB, clock')
           done == CompleteLinkEvent(m_standardOspf, m_rfp, conv, nodeA,
                                     nodeB, m_totalQuaggaModifications)
       IN  /\ m_standardOspf' = done.std
           /\ m_rfp' = done.rfp
           /\ m_activeEvents' = done.active
    /\ healthyRun' = HealthyStep(healthyRun)
    /\ UNCHANGED <<m_predictedEvents, ldmVars, rmmVars, m_eventCounter,
                   m_totalQuaggaModifications, packetVars, vtyshVars,
                   dceEnvVars, sinkLog, appliedLog, submitted, observed,
                   aborted, stopVars, mk, report>>

ExecuteT3Actions ==
    /\ Run("T3")
    /\ \E res \in {AfterT3Actions(VtyshState, Core, schedule[1].nodeA,
                                   schedule[1].nodeB)} :
       LET nodeA == schedule[1].nodeA
           nodeB == schedule[1].nodeB
       IN  /\ CoreDoes(res.core)
           /\ m_totalQuaggaModifications' =
                  IF Escaped(res.v) THEN m_totalQuaggaModifications
                  ELSE m_totalQuaggaModifications + 2
           /\ aborted' = Escaped(res.v)
           /\ healthyRun' = HealthyStep(healthyRun)
           /\ SinkDoes(res.v, Tail(schedule))
    /\ UNCHANGED <<m_predictedEvents, m_eventCounter, analyzerVars,
                   appliedLog, submitted, observed, stopVars, mk, report>>

\* Application::Initialize of the vtysh applications a handler installed:
\* each schedules its start after the start time given to app.Start
ApplicationInitialize ==
    /\ Due("Initialize")
    /\ clock' = schedule[1].time
    /\ schedule' = DceSchedule(Tail(schedule), schedule[1].time,
                               DceStartDelay, "StartApplication",
                               schedule[1].arg, schedule[1].last)
    /\ lastOp' = Op("Initialize", -1, -1, FALSE, schedule[1].arg,
                    schedule[1].last, FALSE)
    /\ UNCHANGED <<m_predictedEvents, ldmVars, rmmVars, m_eventCounter,
                   m_totalQuaggaModifications, analyzerVars, sinkVars,
                   sinkLog, appliedLog, submitted, observed, aborted, stopVars, fired,
                   mk, report>>

\* the start of these applications: vtysh runs with each command, in the
\* order of the installations.  A run that Simulator::Stop ends before this
\* callback never takes the step (Due), so the commands of an installed
\* application may stay unexecuted
StartApplication ==
    /\ Due("StartApplication")
    /\ clock' = schedule[1].time
    /\ schedule' = Tail(schedule)
    /\ dceStarted' = dceStarted
                      \o [i \in 1..(schedule[1].last - schedule[1].arg + 1)
                              |-> schedule[1].arg + i - 1]
    /\ lastOp' = Op("StartApplication", -1, -1, FALSE, schedule[1].arg,
                    schedule[1].last, FALSE)
    /\ UNCHANGED <<m_predictedEvents, ldmVars, rmmVars, m_eventCounter,
                   m_totalQuaggaModifications, analyzerVars, vtyshVars,
                   vtyshOnPath, dceThrown, dceThrowKind, healthyRun, sinkLog,
                   appliedLog,
                   submitted, observed, aborted, stopVars, fired, mk, report>>

Next ==
    \/ SetupDceEnvironmentSafe
    \/ \E p \in EventPairs, t0 \in EventTimes, r \in RegTimes :
           SchedulePredictableLinkDown(p[1], p[2], t0, r)
    \/ \E p \in ObsPairs, up \in BOOLEAN, t \in ObsTimes :
           OnLinkStateChange(p[1], p[2], up, t, t)
    \/ ExecuteT1Actions
    \/ ExecuteT2Actions
    \/ ExecuteT0Actions
    \/ ExecuteT3Actions
    \/ ApplicationInitialize
    \/ StartApplication
    \/ SimulatorStop

Spec == Init /\ [][Next]_vars

\* -------------------------------------- the timeline calculator on its own
\* the requested T0 is drawn at the start and the constructor is run on it
InitMarkers ==
    /\ InitRun
    /\ simTime = SIM_STOP
    /\ \E t0 \in (0 - MaxNegT0)..MaxT0 : mk = [req |-> t0, ev |-> DefaultEvent]

DeriveMarkers ==
    /\ ~mk.ev.active
    /\ mk' = [req |-> mk.req,
              ev |-> PredictableLinkDownEvent(1, 0, 1, mk.req)]
    /\ UNCHANGED <<clock, schedule, m_predictedEvents, ldmVars, rmmVars,
                   m_eventCounter, m_totalQuaggaModifications, analyzerVars,
                   sinkVars, sinkLog, appliedLog, submitted, observed,
                   aborted, stopVars, fired, lastOp, report>>

NextMarkers == DeriveMarkers

SpecMarkers == InitMarkers /\ [][NextMarkers]_vars

\* ------------------------------- one event with T0 = 20 s, from end to end
\* One link event for the pair (0, 1) with T0 = 20 s, registered at the start
\* of the run or by the driver at 2 s, and observations of the pair before,
\* inside and after its window.
E2ETimes == {200}

E2EObsTimes == {100, 180, 200, 230}

RegisterE2E(r) ==
    /\ m_predictedEvents = <<>>
    /\ \E t0 \in E2ETimes : SchedulePredictableLinkDown(0, 1, t0, r)

NextE2E ==
    \/ SetupDceEnvironmentSafe
    \/ \E r \in RegTimes : RegisterE2E(r)
    \/ \E p \in ObsPairs, up \in BOOLEAN, t \in E2EObsTimes :
           OnLinkStateChange(p[1], p[2], up, t, t)
    \/ ExecuteT1Actions
    \/ ExecuteT2Actions
    \/ ExecuteT0Actions
    \/ ExecuteT3Actions
    \/ ApplicationInitialize
    \/ StartApplication
    \/ SimulatorStop

SpecE2E == Init /\ [][NextE2E]_vars

\* ------------------------------------------- calls with invalid node ids
\* The boundary operations called with negative, out-of-range and identical
\* node ids as well as valid ones, and observations whose caller passes a
\* time stamp other than the virtual time of the call.
BoundaryPairs ==
    {<<0, 1>>, <<0 - 1, 0>>, <<0, 0 - 1>>, <<NodeCount, 1>>, <<0, NodeCount>>,
     <<1, 1>>}

BoundaryObsPairs ==
    {<<0, 1>>, <<1, 1>>, <<0 - 1, 0>>, <<0, NodeCount>>, <<0, 0 - 1>>}

BoundaryEventTimes == {40}

\* the one virtual time of the observations, inside the buffering window of
\* the event registered at 0, and the stamps their caller passes: the time of
\* the call, and an earlier one outside the masking window
BoundaryObsTimes == {20}

BoundaryStamps == {12, 20}

BoundaryRegTimes == {0}

NextBoundary ==
    \/ SetupDceEnvironmentSafe
    \/ \E p \in BoundaryPairs, t0 \in BoundaryEventTimes,
          r \in BoundaryRegTimes :
           SchedulePredictableLinkDown(p[1], p[2], t0, r)
    \/ \E p \in BoundaryObsPairs, up \in BOOLEAN, t \in BoundaryObsTimes,
          stamp \in BoundaryStamps :
           OnLinkStateChange(p[1], p[2], up, stamp, t)
    \/ ExecuteT1Actions
    \/ ExecuteT2Actions
    \/ ExecuteT0Actions
    \/ ExecuteT3Actions
    \/ ApplicationInitialize
    \/ StartApplication
    \/ SimulatorStop

SpecBoundary == Init /\ [][NextBoundary]_vars

ReportEventTimes == {40}

\* --------------------------------------------------- the report at any time
\* The run of one link event with observations, in which the statistics are
\* printed at any moment: before anything was measured, with events of one
\* class only, and with events of both classes.
PrintFinalStatistics ==
    /\ Running
    /\ report' = PrintFinalResults(m_standardOspf, m_rfp)
    /\ lastOp' = Op("report", -1, -1, FALSE, clock, 0, FALSE)
    /\ UNCHANGED <<clock, schedule, m_predictedEvents, ldmVars, rmmVars,
                   m_eventCounter, m_totalQuaggaModifications, analyzerVars,
                   sinkVars, sinkLog, appliedLog, submitted, observed,
                   aborted, stopVars, fired, mk>>

RegisterForReport(r) ==
    /\ m_predictedEvents = <<>>
    /\ \E t0 \in ReportEventTimes :
           SchedulePredictableLinkDown(0, 1, t0, r)

NextReport ==
    \/ SetupDceEnvironmentSafe
    \/ PrintFinalStatistics
    \/ \E r \in RegTimes : RegisterForReport(r)
    \/ \E p \in ObsPairs, up \in BOOLEAN, t \in ObsTimes :
           OnLinkStateChange(p[1], p[2], up, t, t)
    \/ ExecuteT1Actions
    \/ ExecuteT2Actions
    \/ ExecuteT0Actions
    \/ ExecuteT3Actions
    \/ ApplicationInitialize
    \/ StartApplication
    \/ SimulatorStop

SpecReport == Init /\ [][NextReport]_vars

\* --------------------------------------------------- a sink that loses calls
\* The run of one link event on a machine with or without vtysh, in which
\* the environment is set up at any moment (main does it first), the
\* installation of a command on DCE throws at any command, and the route
\* helpers are called from outside with a prefix of any length.
MaxThrows == 1

MaxThrowAt == 3

MaxHelperCalls == 1

RECURSIVE Repeat(_, _)
Repeat(text, n) == IF n <= 0 THEN "" ELSE text \o Repeat(text, n - 1)

\* a prefix of 204 characters
LongPrefix == Repeat("10.1.0.0/16,", 17)

HelperPrefixes == {Prefix(1), LongPrefix}

\* the environment: the k-th installation from now on throws an exception
\* that is a std::exception (kind "std") or is not (kind "other")
DceInstallThrows(k, kind) ==
    /\ Running
    /\ dceThrowIn = 0
    /\ dceThrown < MaxThrows
    /\ dceThrowIn' = k
    /\ dceThrowKind' = kind
    /\ dceThrown' = dceThrown + 1
    /\ UNCHANGED <<clock, schedule, m_predictedEvents, ldmVars, rmmVars,
                   m_eventCounter, m_totalQuaggaModifications, analyzerVars,
                   vtyshAvailable, vtyshChecked, vtyshDropped, dceApps,
                   vtyshOnPath, dceStarted, healthyRun, sinkLog,
                   appliedLog, submitted, observed, aborted, stopVars, fired,
                   lastOp, mk, report>>

HelperFrame ==
    UNCHANGED <<m_predictedEvents, ldmVars, rmmVars, m_eventCounter,
                m_totalQuaggaModifications, analyzerVars, healthyRun,
                appliedLog, submitted, observed, stopVars, fired, mk, report>>

\* AddQuaggaRoute called from outside at virtual time now
CallAddQuaggaRoute(node, prefix, nexthop, metric, now) ==
    /\ Running
    /\ Len(sinkLog) < MaxHelperCalls
    /\ CanHappenAt(now)
    /\ clock' = now
    /\ \E w \in {AddQuaggaRoute(VtyshState, node, prefix, nexthop, metric)} :
           /\ SinkDoes(w, schedule)
           /\ aborted' = Escaped(w)
    /\ lastOp' = Op("AddQuaggaRoute", node, -1, TRUE, Len(prefix), 0, FALSE)
    /\ HelperFrame

\* DelQuaggaRoute called from outside at virtual time now
CallDelQuaggaRoute(node, prefix, nexthop, now) ==
    /\ Running
    /\ Len(sinkLog) < MaxHelperCalls
    /\ CanHappenAt(now)
    /\ clock' = now
    /\ \E w \in {DelQuaggaRoute(VtyshState, node, prefix, nexthop)} :
           /\ SinkDoes(w, schedule)
           /\ aborted' = Escaped(w)
    /\ lastOp' = Op("DelQuaggaRoute", node, -1, FALSE, Len(prefix), 0, FALSE)
    /\ HelperFrame

SinkEventTimes == {40}

\* the event is registered at 0 and buffers from 1.5 s to 3.5 s, so that an
\* observation at 2.0 s is buffered if it was registered and applied at once
\* if it was not
SinkRegTimes == {0}

SinkObsTimes == {20}

RegisterOne(r) ==
    /\ m_predictedEvents = <<>>
    /\ \E t0 \in SinkEventTimes : SchedulePredictableLinkDown(0, 1, t0, r)

NextSink ==
    \/ SetupDceEnvironmentSafe
    \/ \E k \in 1..MaxThrowAt, kind \in ThrowKinds : DceInstallThrows(k, kind)
    \/ \E prefix \in HelperPrefixes :
           CallAddQuaggaRoute(0, prefix, Nexthop(2), 1, 0)
    \/ \E prefix \in HelperPrefixes :
           CallDelQuaggaRoute(0, prefix, Nexthop(2), 0)
    \/ \E r \in SinkRegTimes : RegisterOne(r)
    \/ \E p \in EventPairs, up \in BOOLEAN, t \in SinkObsTimes :
           OnLinkStateChange(p[1], p[2], up, t, t)
    \/ ExecuteT1Actions
    \/ ExecuteT2Actions
    \/ ExecuteT0Actions
    \/ ExecuteT3Actions
    \/ ApplicationInitialize
    \/ StartApplication
    \/ SimulatorStop

SpecSink == Init /\ [][NextSink]_vars

\* ------------------------------------------------ the accessors of the gate
\* std::map::find as the accessors use it: the value found, and the map as
\* the lookup leaves it
Find_CreatesKey(m, k) ==
    [found |-> k \in DOMAIN m, value |-> MapRead(m, k),
     map |-> Put(m, k, MapRead(m, k))]

Find(m, k) ==
    [found |-> k \in DOMAIN m, value |-> MapRead(m, k), map |-> m]

\* LinkDetectionModule::GetReportedState called from outside
CallGetReportedState(nodeA, nodeB) ==
    LET it == Find(m_reportedLinkStates, MakeOrderedPair(nodeA, nodeB))
    IN  /\ Running
        /\ m_reportedLinkStates' = it.map
        /\ lastOp' = Op("GetReportedState", nodeA, nodeB,
                        IF it.found THEN it.value ELSE FALSE, clock, 0,
                        GetReportedState(nodeA, nodeB))
        /\ UNCHANGED <<clock, schedule, m_predictedEvents, m_realLinkStates,
                       m_forcedDownLinks, rmmVars, m_eventCounter,
                       m_totalQuaggaModifications, analyzerVars, sinkVars,
                       sinkLog, appliedLog, submitted, observed, aborted, stopVars,
                       fired, mk, report>>

\* LinkDetectionModule::GetRealState called from outside
CallGetRealState(nodeA, nodeB) ==
    LET it == Find(m_realLinkStates, MakeOrderedPair(nodeA, nodeB))
    IN  /\ Running
        /\ m_realLinkStates' = it.map
        /\ lastOp' = Op("GetRealState", nodeA, nodeB,
                        IF it.found THEN it.value ELSE FALSE, clock, 0,
                        GetReportedState(nodeA, nodeB))
        /\ UNCHANGED <<clock, schedule, m_predictedEvents,
                       m_reportedLinkStates, m_forcedDownLinks, rmmVars,
                       m_eventCounter, m_totalQuaggaModifications,
                       analyzerVars, sinkVars, sinkLog, appliedLog, submitted,
                       observed, aborted, stopVars, fired, mk, report>>

\* the controller's accessor, which forwards to GetReportedState
GetOspfLinkState(nodeA, nodeB) ==
    LET it == Find(m_reportedLinkStates, MakeOrderedPair(nodeA, nodeB))
    IN  /\ Running
        /\ m_reportedLinkStates' = it.map
        /\ lastOp' = Op("GetOspfLinkState", nodeA, nodeB,
                        IF it.found THEN it.value ELSE FALSE, clock, 0,
                        GetReportedState(nodeA, nodeB))
        /\ UNCHANGED <<clock, schedule, m_predictedEvents, m_realLinkStates,
                       m_forcedDownLinks, rmmVars, m_eventCounter,
                       m_totalQuaggaModifications, analyzerVars, sinkVars,
                       sinkLog, appliedLog, submitted, observed, aborted, stopVars,
                       fired, mk, report>>

\* The run of one link event for the pair (0, 1) with observations of that
\* pair, in which the accessors are called at any moment for the pair in
\* either order and for a pair nothing else ever names.
AccessorPairs == {<<0, 1>>, <<1, 0>>, <<0, 2>>}

AccessorEventTimes == {40}

RegisterForAccessors(r) ==
    /\ m_predictedEvents = <<>>
    /\ \E t0 \in AccessorEventTimes :
           SchedulePredictableLinkDown(0, 1, t0, r)

NextAccessors ==
    \/ SetupDceEnvironmentSafe
    \/ \E p \in AccessorPairs : CallGetReportedState(p[1], p[2])
    \/ \E p \in AccessorPairs : CallGetRealState(p[1], p[2])
    \/ \E p \in AccessorPairs : GetOspfLinkState(p[1], p[2])
    \/ \E r \in RegTimes : RegisterForAccessors(r)
    \/ \E p \in ObsPairs, up \in BOOLEAN, t \in ObsTimes :
           OnLinkStateChange(p[1], p[2], up, t, t)
    \/ ExecuteT1Actions
    \/ ExecuteT2Actions
    \/ ExecuteT0Actions
    \/ ExecuteT3Actions
    \/ ApplicationInitialize
    \/ StartApplication
    \/ SimulatorStop

SpecAccessors == Init /\ [][NextAccessors]_vars

\* ------------------------------------------------- the analyzer on its own
\* A PerformanceAnalyzer driven through its public operations by a traffic
\* source and a measurement harness; each call is made at a virtual time
\* that is not in the past.  The controller keeps its own analyzer private
\* and counts no packet.
MaxPackets == 1

MaxCompleted == 2

\* 1.0 s, and 16.1 s, where the stamp is no whole number of milliseconds
AnalyzerTimes == {10, 161}

AnalyzerPairs == {<<0, 1>>}

\* outage times in ms handed to RecordLinkDownEvent: two events give the
\* averages 1, 1.5 and 2 ms
AnalyzerOutages == {1, 2}

AnalyzerFrame ==
    UNCHANGED <<schedule, m_predictedEvents, ldmVars, rmmVars,
                m_eventCounter, m_totalQuaggaModifications, sinkVars, sinkLog,
                appliedLog, submitted, observed, aborted, stopVars, fired, mk>>

CallSetSimulationStart(startTime) ==
    /\ m_simulationStartTime' = SetSimulationStart(startTime)
    /\ lastOp' = Op("SetSimulationStart", -1, -1, FALSE, startTime, 0, FALSE)
    /\ UNCHANGED <<clock, m_standardOspf, m_rfp, m_activeEvents,
                   m_packetsSentTotal, m_packetsReceivedTotal,
                   m_packetsAtLinkDown>>
    /\ UNCHANGED report
    /\ AnalyzerFrame

CallOnPacketSent ==
    /\ m_packetsSentTotal < MaxPackets
    /\ m_packetsSentTotal' = OnPacketSent(m_packetsSentTotal)
    /\ lastOp' = Op("OnPacketSent", -1, -1, FALSE, clock, 0, FALSE)
    /\ UNCHANGED <<clock, m_standardOspf, m_rfp, m_activeEvents,
                   m_packetsReceivedTotal, m_packetsAtLinkDown,
                   m_simulationStartTime>>
    /\ UNCHANGED report
    /\ AnalyzerFrame

CallOnPacketReceived ==
    /\ m_packetsReceivedTotal < MaxPackets
    /\ m_packetsReceivedTotal' = OnPacketReceived(m_packetsReceivedTotal)
    /\ lastOp' = Op("OnPacketReceived", -1, -1, FALSE, clock, 0, FALSE)
    /\ UNCHANGED <<clock, m_standardOspf, m_rfp, m_activeEvents,
                   m_packetsSentTotal, m_packetsAtLinkDown,
                   m_simulationStartTime>>
    /\ UNCHANGED report
    /\ AnalyzerFrame

CallStartLinkDownEvent(nodeA, nodeB, isRfp, now) ==
    /\ now >= clock
    /\ clock' = now
    /\ LET start == StartLinkDownEvent(m_activeEvents, m_packetsSentTotal,
                                       nodeA, nodeB, isRfp, now)
       IN  /\ m_activeEvents' = start.active
           /\ m_packetsAtLinkDown' = start.atDown
    /\ lastOp' = Op("StartLinkDownEvent", nodeA, nodeB, isRfp, now, 0, FALSE)
    /\ UNCHANGED <<m_standardOspf, m_rfp, m_packetsSentTotal,
                   m_packetsReceivedTotal, m_simulationStartTime>>
    /\ UNCHANGED report
    /\ AnalyzerFrame

CallRecordOspfDetection(nodeA, nodeB, now) ==
    /\ now >= clock
    /\ clock' = now
    /\ m_activeEvents' = RecordOspfDetection(m_activeEvents, nodeA, nodeB,
                                             now)
    /\ lastOp' = Op("RecordOspfDetection", nodeA, nodeB, FALSE, now, 0, FALSE)
    /\ UNCHANGED <<m_standardOspf, m_rfp, packetVars>>
    /\ UNCHANGED report
    /\ AnalyzerFrame

CallRecordRouteConvergence(nodeA, nodeB, now) ==
    /\ now >= clock
    /\ clock' = now
    /\ m_activeEvents' =
           RecordRouteConvergence(m_activeEvents, m_packetsSentTotal,
               m_packetsReceivedTotal, m_packetsAtLinkDown, nodeA, nodeB, now)
    /\ lastOp' = Op("RecordRouteConvergence", nodeA, nodeB, FALSE, now, 0,
                    FALSE)
    /\ UNCHANGED <<m_standardOspf, m_rfp, packetVars>>
    /\ UNCHANGED report
    /\ AnalyzerFrame

CallCompleteLinkEvent(nodeA, nodeB, quaggaMods, now) ==
    /\ m_standardOspf.linkDownEvents + m_rfp.linkDownEvents < MaxCompleted
    /\ now >= clock
    /\ clock' = now
    /\ LET done == CompleteLinkEvent(m_standardOspf, m_rfp, m_activeEvents,
                                     nodeA, nodeB, quaggaMods)
       IN  /\ m_standardOspf' = done.std
           /\ m_rfp' = done.rfp
           /\ m_activeEvents' = done.active
    /\ lastOp' = Op("CompleteLinkEvent", nodeA, nodeB, FALSE, now, 0, FALSE)
    /\ UNCHANGED packetVars
    /\ UNCHANGED report
    /\ AnalyzerFrame

\* a measurement handed over as a whole, with the default detection time
\* and modification count
CallRecordLinkDownEvent(useRfp, outageTimeMs, packetsLost) ==
    /\ m_standardOspf.linkDownEvents + m_rfp.linkDownEvents < MaxCompleted
    /\ LET done == RecordLinkDownEvent(m_standardOspf, m_rfp, useRfp,
                                       MsOf(outageTimeMs), U32(packetsLost),
                                       MsOf(0), 0)
       IN  /\ m_standardOspf' = done.std
           /\ m_rfp' = done.rfp
    /\ lastOp' = Op("RecordLinkDownEvent", -1, -1, useRfp, outageTimeMs, 0,
                    FALSE)
    /\ UNCHANGED <<clock, m_activeEvents, packetVars, report>>
    /\ AnalyzerFrame

CallPrintFinalResults ==
    /\ report' = PrintFinalResults(m_standardOspf, m_rfp)
    /\ lastOp' = Op("PrintFinalResults", -1, -1, FALSE, clock, 0, FALSE)
    /\ UNCHANGED <<clock, analyzerVars>>
    /\ AnalyzerFrame

NextAnalyzer ==
    \/ \E t \in AnalyzerTimes : CallSetSimulationStart(t)
    \/ CallOnPacketSent
    \/ CallOnPacketReceived
    \/ \E p \in AnalyzerPairs, isRfp \in BOOLEAN, t \in AnalyzerTimes :
           CallStartLinkDownEvent(p[1], p[2], isRfp, t)
    \/ \E p \in AnalyzerPairs, t \in AnalyzerTimes :
           CallRecordOspfDetection(p[1], p[2], t)
    \/ \E p \in AnalyzerPairs, t \in AnalyzerTimes :
           CallRecordRouteConvergence(p[1], p[2], t)
    \/ \E p \in AnalyzerPairs, t \in AnalyzerTimes :
           CallCompleteLinkEvent(p[1], p[2], 1, t)
    \/ \E useRfp \in BOOLEAN, outage \in AnalyzerOutages :
           CallRecordLinkDownEvent(useRfp, outage, 1)
    \/ CallPrintFinalResults

SpecAnalyzer == Init /\ [][NextAnalyzer]_vars

\* ------------------------------------------- a run the scheduler carries out
\* Simulator::Run executes the callbacks of its queue in order until the
\* stop event (main, Simulator::Stop(Seconds(simTime))), so each timeline
\* action and each callback of an installed application that is due before
\* the stop is eventually executed, and the stop itself is; what is queued
\* for the stop time or later is discarded.  Up to MaxEvents events for the
\* pair (0, 1), registered at the start of the run or by the driver, with
\* observations while the first event buffers and after its window.  The
\* run is stopped at the default time, after every callback, or in the
\* middle of the timelines: at 3.3 s, when an event may be buffering with
\* updates queued, or at 3.7 s, 0.1 s after the T3 action of an event
\* clamped at registration time 0, when the vtysh applications that action
\* installed are about to start.
LiveEventTimes == {10, 40}

LiveObsTimes == {12, 60}

LiveSimTimes == {33, 37, SIM_STOP}

InitLive ==
    /\ InitRun
    /\ simTime \in LiveSimTimes
    /\ mk = NoMarkers

NextLive ==
    \/ SetupDceEnvironmentSafe
    \/ \E p \in EventPairs, t0 \in LiveEventTimes, r \in RegTimes :
           SchedulePredictableLinkDown(p[1], p[2], t0, r)
    \/ \E p \in EventPairs, up \in BOOLEAN, t \in LiveObsTimes :
           OnLinkStateChange(p[1], p[2], up, t, t)
    \/ ExecuteT1Actions
    \/ ExecuteT2Actions
    \/ ExecuteT0Actions
    \/ ExecuteT3Actions
    \/ ApplicationInitialize
    \/ StartApplication
    \/ SimulatorStop

SpecLive ==
    /\ InitLive
    /\ [][NextLive]_vars
    /\ WF_vars(SetupDceEnvironmentSafe)
    /\ WF_vars(ExecuteT1Actions)
    /\ WF_vars(ExecuteT2Actions)
    /\ WF_vars(ExecuteT0Actions)
    /\ WF_vars(ExecuteT3Actions)
    /\ WF_vars(ApplicationInitialize)
    /\ WF_vars(StartApplication)
    /\ WF_vars(SimulatorStop)

\* =================================================================== claims
Timeline == <<"T1", "T2", "T0", "T3">>

IsTimelineOp(op) == op \in {"T1", "T2", "T0", "T3"}

LastLink == MakeOrderedPair(lastOp.a, lastOp.b)

\* the masking window [T1, T3] of a stored event for the unordered pair
InMaskingWindow(nodeA, nodeB, t) ==
    \E i \in 1..Len(m_predictedEvents) :
        /\ m_predictedEvents[i].active
        /\ {m_predictedEvents[i].nodeA, m_predictedEvents[i].nodeB}
               = {nodeA, nodeB}
        /\ DoubleLeq(MarkerT1(m_predictedEvents[i]), DoubleOf(t))
        /\ DoubleLeq(DoubleOf(t), MarkerT3(m_predictedEvents[i]))

MarkerOf(event, kind) ==
    IF kind = "T1" THEN event.T1
    ELSE IF kind = "T2" THEN event.T2
    ELSE IF kind = "T0" THEN event.T0
    ELSE event.T3

LogPositions(id) == {k \in 1..Len(appliedLog) : appliedLog[k].id = id}

IsPending(id) == \E i \in 1..Len(m_pendingUpdates) : m_pendingUpdates[i].id = id

\* C1: every update submitted while buffering is either still queued and not
\* yet applied, or was applied exactly once and by the flush; buffered
\* updates are applied in the order they were submitted.
C1_BufferedAppliedOnceInOrder ==
    /\ \A id \in 1..Len(submitted) :
           submitted[id] =>
               IF IsPending(id)
               THEN LogPositions(id) = {}
               ELSE /\ Cardinality(LogPositions(id)) = 1
                    /\ \A k \in LogPositions(id) : appliedLog[k].via = "flush"
    /\ \A j, k \in 1..Len(appliedLog) :
           (j < k /\ submitted[appliedLog[j].id] /\ submitted[appliedLog[k].id])
               => appliedLog[j].id < appliedLog[k].id

C1_Witness ==
    /\ lastOp.op = "T2"
    /\ Cardinality({k \in 1..Len(appliedLog) : appliedLog[k].via = "flush"}) >= 2
    /\ m_pendingUpdates = <<>>

\* C2: an observation of a pair inside the masking window [T1, T3] of an
\* event registered for that pair leaves the pair's reported state as it was.
C2_MaskedObservationKeepsReported ==
    (lastOp.op = "observe" /\ InMaskingWindow(lastOp.a, lastOp.b, lastOp.arg))
        => GetReportedState(lastOp.a, lastOp.b) = lastOp.rep0

\* C3: a pair that is forced down is reported down, whatever its real state.
C3_ForcedDownReportsDown ==
    \A link \in m_forcedDownLinks : MapRead(m_reportedLinkStates, link) = FALSE

C3_Witness ==
    /\ lastOp.op = "observe"
    /\ lastOp.up
    /\ LastLink \in m_forcedDownLinks
    /\ GetRealState(lastOp.a, lastOp.b)
    /\ ~InMaskingWindow(lastOp.a, lastOp.b, lastOp.arg)

\* the markers of the event derived last, as doubles
MkT0 == MarkerT0(mk.ev)

MkT1 == MarkerT1(mk.ev)

MkT2 == MarkerT2(mk.ev)

MkT3 == MarkerT3(mk.ev)

\* Tc + 3dT = 3.5 s
WindowLength == DoubleAdd(Tc, DoubleAdd(TwodT, dT))

\* half a unit in the last place of a double, in the unit of e
HalfUlp(x) == 5 * Pow2(Binade(x.t, x.e) + 4)

Abs(x) == IF x < 0 THEN 0 - x ELSE x

\* C4 as stated: for a requested T0 > Tc + 2dT the markers are
\* T1 = T0 - Tc - 2dT, T2 = T0 - dT, T3 = T0 + dT with T0 kept, so
\* T1 < T2 < T0 < T3 and T3 - T1 = Tc + 3dT.
C4_UnclampedMarkers ==
    (mk.ev.active
     /\ mk.req > RFP_CONVERGENCE_TIME_TC + 2 * RFP_SAFETY_MARGIN_DT)
        => /\ MkT0 = DoubleOf(mk.req)
           /\ MkT1 = DoubleSub(DoubleSub(MkT0, Tc), TwodT)
           /\ MkT2 = DoubleSub(MkT0, dT)
           /\ MkT3 = DoubleAdd(MkT0, dT)
           /\ DoubleLess(MkT1, MkT2)
           /\ DoubleLess(MkT2, MkT0)
           /\ DoubleLess(MkT0, MkT3)
           /\ DoubleSub(MkT3, MkT1) = WindowLength

\* C4, amended: for a requested T0 > Tc + 2dT of at most MaxT0 tenths of a
\* second (300 s) the markers are T1 = T0 - Tc - 2dT and T2 = T0 - dT
\* without rounding, T3 is the double nearest to T0 + dT, T0 is kept and
\* T1 < T2 < T0 < T3; T3 - T1 equals Tc + 3dT whenever T0 + dT is a double,
\* and otherwise differs from it by at most half a unit in the last place
\* of T3.  (From 2^52 s on the margin dT is below the spacing of doubles.)
C4_UnclampedMarkersRounded ==
    (mk.ev.active
     /\ mk.req > RFP_CONVERGENCE_TIME_TC + 2 * RFP_SAFETY_MARGIN_DT)
        => /\ MkT0 = DoubleOf(mk.req)
           /\ MkT1 = Double(MkT0.t - Tc.t - TwodT.t, MkT0.e)
           /\ MkT2 = Double(MkT0.t - dT.t, MkT0.e)
           /\ MkT3 = RoundToDouble(MkT0.t + dT.t, MkT0.e)
           /\ DoubleLess(MkT1, MkT2)
           /\ DoubleLess(MkT2, MkT0)
           /\ DoubleLess(MkT0, MkT3)
           /\ MkT3.t - MkT1.t = WindowLength.t
           /\ Abs(MkT3.e - MkT1.e) <= HalfUlp(MkT3)
           /\ MkT3 = Double(MkT0.t + dT.t, MkT0.e)
                  => DoubleSub(MkT3, MkT1) = WindowLength

\* T0 = 3.6 s gives T1 = 0.6000000000000001 s, T2 = 3.1 s and T3 = 4.1 s,
\* the sum T0 + dT being rounded down, so that T3 - T1 is
\* 3.4999999999999996 s
C4_Witness ==
    /\ mk.ev.active
    /\ mk.req = 36
    /\ MkT1 = Double(6, DoubleOf(6).e + 2 * HalfUlp(DoubleOf(6)))
    /\ MkT2 = DoubleOf(31)
    /\ MkT3 = DoubleOf(41)
    /\ DoubleLess(DoubleSub(MkT3, MkT1), WindowLength)

\* C5: for every requested T0 <= Tc + 2dT the markers are the clamped ones,
\* T1 = 0.1 s and T1 < T2 < T0 < T3.
C5_ClampedMarkers ==
    (mk.ev.active
     /\ mk.req <= RFP_CONVERGENCE_TIME_TC + 2 * RFP_SAFETY_MARGIN_DT)
        => /\ MkT1 = DoubleOf(ClampT1)
           /\ DoubleLess(MkT1, MkT2)
           /\ DoubleLess(MkT2, MkT0)
           /\ DoubleLess(MkT0, MkT3)

\* C6: the T2 action of one event leaves buffering on while another event
\* has run its T1 action and has its T2 action still to come at a later time.
C6_NoFlushWhileOtherEventBuffers ==
    (lastOp.op = "T2"
     /\ \E e \in 1..Len(fired) :
            /\ e # lastOp.ev
            /\ fired[e] = <<"T1">>
            /\ \E i \in 1..Len(schedule) :
                   /\ schedule[i].ev = e
                   /\ schedule[i].kind = "T2"
                   /\ schedule[i].time > clock)
        => m_bfuActive

\* C7: the actions of every stored event run in the order T1, T2, T0, T3,
\* each at most once, and once no callback is left every stored event has
\* run all four.
C7_FourActionsOnceInOrder ==
    /\ \A e \in 1..Len(fired) :
           /\ Len(fired[e]) <= Len(Timeline)
           /\ fired[e] = SubSeq(Timeline, 1, Len(fired[e]))
    /\ schedule = <<>> => \A e \in 1..Len(fired) : fired[e] = Timeline

\* C8: a timeline action runs when the clock reads the marker stored for its
\* event, and the time handed to the action is the clock reading.
C8_ActionsRunAtStoredMarkers ==
    IsTimelineOp(lastOp.op)
        => /\ clock = MarkerOf(m_predictedEvents[lastOp.ev], lastOp.op)
           /\ lastOp.arg = clock

\* C9: right after the T3 action the pair is no longer forced down and its
\* reported state equals its recorded real state.
C9_RestoreReportsRealState ==
    lastOp.op = "T3"
        => /\ LastLink \notin m_forcedDownLinks
           /\ GetReportedState(lastOp.a, lastOp.b)
                  = GetRealState(lastOp.a, lastOp.b)

\* the link was reported up earlier, is really down, and T3 discloses it
C9_Witness ==
    /\ lastOp.op = "T3"
    /\ LastLink \in DOMAIN m_realLinkStates
    /\ ~GetRealState(lastOp.a, lastOp.b)
    /\ ~GetReportedState(lastOp.a, lastOp.b)
    /\ \E k \in 1..Len(sinkLog) :
           /\ sinkLog[k].op = "link"
           /\ sinkLog[k].up
           /\ MakeOrderedPair(sinkLog[k].node, sinkLog[k].dst) = LastLink

\* C10: an observation of a pair that is not forced down, at a time outside
\* every masking window of the pair, leaves reported state = real state.
C10_ObservationConverges ==
    (lastOp.op = "observe"
     /\ LastLink \notin m_forcedDownLinks
     /\ ~InMaskingWindow(lastOp.a, lastOp.b, lastOp.arg))
        => GetReportedState(lastOp.a, lastOp.b)
               = GetRealState(lastOp.a, lastOp.b)

\* C11: the two orders of a pair are interchangeable: the masking check, the
\* link-state update of an observation and the baseline classification of a
\* link-down observation give the same result for (a, b) and for (b, a),
\* whichever order the event was registered in.
C11_PairOrderIrrelevant ==
    \A nodeA, nodeB \in Nodes, t \in ObsTimes :
        nodeA # nodeB =>
            /\ IsInBldPeriod(m_predictedEvents, nodeA, nodeB, t)
                   = IsInBldPeriod(m_predictedEvents, nodeB, nodeA, t)
            /\ AnalyzeLinkDownPerformance(m_predictedEvents, m_standardOspf,
                                          m_rfp, nodeA, nodeB, t)
                   = AnalyzeLinkDownPerformance(m_predictedEvents,
                                                m_standardOspf, m_rfp, nodeB,
                                                nodeA, t)
            /\ \A isUp \in BOOLEAN :
                   LET ab == UpdateRealLinkState(
                                 m_predictedEvents, m_realLinkStates,
                                 m_reportedLinkStates, m_forcedDownLinks,
                                 nodeA, nodeB, isUp, t)
                       ba == UpdateRealLinkState(
                                 m_predictedEvents, m_realLinkStates,
                                 m_reportedLinkStates, m_forcedDownLinks,
                                 nodeB, nodeA, isUp, t)
                   IN  /\ ab.real = ba.real
                       /\ ab.reported = ba.reported
                       /\ ab.forced = ba.forced

\* the pair of the last operation was disclosed as up to the routing sink
DisclosedUp(link) ==
    \E k \in 1..Len(sinkLog) :
        /\ sinkLog[k].op = "link"
        /\ sinkLog[k].up
        /\ MakeOrderedPair(sinkLog[k].node, sinkLog[k].dst) = link

\* C12 as stated: with T0 = 20 s (T1 = 17.0, T2 = 19.5, T3 = 20.5) on a pair
\* observed up before T1, the pair is still reported up right after it is
\* observed down at 18.0 s and stays reported up until the T2 action.
C12_ReportedUpUntilT2 ==
    \A e \in 1..Len(m_predictedEvents) :
        (/\ m_predictedEvents[e].T0 \in E2ETimes
         /\ DisclosedUp(MakeOrderedPair(m_predictedEvents[e].nodeA,
                                        m_predictedEvents[e].nodeB))
         /\ clock >= 180
         /\ ~GetRealState(m_predictedEvents[e].nodeA,
                          m_predictedEvents[e].nodeB)
         /\ "T2" \notin {fired[e][k] : k \in 1..Len(fired[e])})
            => GetReportedState(m_predictedEvents[e].nodeA,
                                m_predictedEvents[e].nodeB)

\* C12, amended: in the same scenario the T1 action forces the pair down, so
\* the pair is reported down from the T1 action until the T3 action, whatever
\* is observed in between.
C12_ReportedDownFromT1ToT3 ==
    \A e \in 1..Len(m_predictedEvents) :
        (/\ m_predictedEvents[e].T0 \in E2ETimes
         /\ Len(fired[e]) >= 1
         /\ Len(fired[e]) < Len(Timeline))
            => ~GetReportedState(m_predictedEvents[e].nodeA,
                                 m_predictedEvents[e].nodeB)

\* the pair was disclosed as up, its T1 action has run, and it is observed
\* down at 18.0 s
C12_Witness ==
    /\ lastOp.op = "observe"
    /\ ~lastOp.up
    /\ lastOp.arg = 180
    /\ Len(m_predictedEvents) = 1
    /\ m_predictedEvents[1].T0 \in E2ETimes
    /\ m_predictedEvents[1].T1 = 170
    /\ fired[1] = <<"T1">>
    /\ DisclosedUp(LastLink)
    /\ ~GetReportedState(lastOp.a, lastOp.b)

\* a step that is an observation of a link / the run of a timeline action
ObserveStep == observed' = observed + 1

TimelineStep(kind) ==
    /\ Due(kind)
    /\ lastOp'.op = kind
    /\ Len(fired'[schedule[1].ev]) = Len(fired[schedule[1].ev]) + 1

\* C13: a link-down observation of a pair at a time outside every masking
\* window of the pair adds exactly one event with a detection time of
\* 40000 ms to the baseline totals and leaves the predicted totals unchanged.
C13_UnmaskedDownIsOneBaselineEvent ==
    [][(/\ ObserveStep
        /\ ~lastOp'.up
        /\ ~InMaskingWindow(lastOp'.a, lastOp'.b, lastOp'.arg))
           => /\ m_standardOspf'.linkDownEvents
                     = m_standardOspf.linkDownEvents + 1
              /\ m_standardOspf'.detectionTimeTotal
                     = MsAdd(m_standardOspf.detectionTimeTotal,
                             MsOf(BaselineDetectionMs))
              /\ m_rfp' = m_rfp]_vars

\* a predicted event was measured, and after its window the pair is observed
\* down: one baseline event, the predicted totals still hold one event
C13_Witness ==
    /\ lastOp.op = "observe"
    /\ ~lastOp.up
    /\ Len(m_predictedEvents) >= 1
    /\ ~InMaskingWindow(lastOp.a, lastOp.b, lastOp.arg)
    /\ m_standardOspf.linkDownEvents = 1
    /\ m_standardOspf.detectionTimeTotal = MsOf(BaselineDetectionMs)
    /\ m_rfp.linkDownEvents = 1

\* node ids the boundary has to refuse: negative, out of range or identical
NodeIdsInvalid(nodeA, nodeB) ==
    \/ nodeA < 0
    \/ nodeB < 0
    \/ nodeA >= NodeCount
    \/ nodeB >= NodeCount
    \/ nodeA = nodeB

\* C14: a registration with a negative, out-of-range or identical node id is
\* rejected: it stores no event, schedules no action and changes no link,
\* buffer, counter or measurement state.
C14_InvalidRegistrationRejected ==
    [][(/\ lastOp'.op \in {"register", "reject"}
        /\ lastOp' # lastOp
        /\ NodeIdsInvalid(lastOp'.a, lastOp'.b))
           => /\ lastOp'.op = "reject"
              /\ UNCHANGED <<schedule, m_predictedEvents, ldmVars, rmmVars,
                             analyzerVars, m_eventCounter,
                             m_totalQuaggaModifications, sinkLog, appliedLog,
                             submitted, fired>>]_vars

\* a registration with identical ids is rejected while an event is stored
\* and its actions are scheduled
C14_Witness ==
    /\ lastOp.op = "reject"
    /\ lastOp.a = lastOp.b
    /\ Len(m_predictedEvents) = 1
    /\ Len(schedule) = Len(Timeline)
    /\ m_eventCounter = 1

\* C15: an observation with a negative, out-of-range or identical node id is
\* rejected: it changes no link, buffer, counter or measurement state and
\* hands nothing to the routing sink.
C15_InvalidObservationRejected ==
    [][(ObserveStep /\ NodeIdsInvalid(lastOp'.a, lastOp'.b))
           => UNCHANGED <<ldmVars, rmmVars, analyzerVars,
                          m_totalQuaggaModifications, sinkLog,
                          appliedLog>>]_vars

\* C16: whichever commands of the routing sink were lost (vtysh missing, an
\* exception of either kind thrown by the DCE installation, a command over
\* the length limit), no exception ends the run, the timeline actions that
\* have been executed and those still queued are the ones of the run with the
\* same registrations and observations on a sink that loses nothing, in the
\* same order, and the link gate and the update buffer are in the same state.
C16_CoreIndependentOfSink ==
    /\ ~aborted
    /\ Core = healthyRun.core
    /\ fired = healthyRun.fired
    /\ SelectSeq(schedule, IsTimelineCallback) = healthyRun.queue

\* vtysh is available, a command was lost to an
\* exception of the DCE installation that is not a std::exception while
\* others were installed, and the T1 and T2 actions and an immediate or
\* flushed update have gone through all the same
C16_Witness ==
    /\ vtyshAvailable
    /\ dceThrown = 1
    /\ dceThrowKind = "other"
    /\ dceThrowIn = 0
    /\ vtyshDropped >= 1
    /\ dceApps # <<>>
    /\ Len(fired) = 1
    /\ Len(fired[1]) >= 2
    /\ m_forcedDownLinks # {}
    /\ m_routeUpdatesApplied >= 1

\* C17: whenever the T2 action starts its flush, the blocked counter equals
\* the number of entries in the pending queue, in the first buffering
\* session and in every later one.
C17_BlockedEqualsQueueAtFlush ==
    [][TimelineStep("T2")
           => m_routeUpdatesBlocked = Len(m_pendingUpdates)]_vars

\* C18: the applied counter never decreases, and in every step it grows by
\* exactly the number of updates handed to the sink in that step, on the
\* immediate path as well as in a flush.
C18_AppliedCountsHandedUpdates ==
    [][/\ m_routeUpdatesApplied' >= m_routeUpdatesApplied
       /\ m_routeUpdatesApplied' - m_routeUpdatesApplied
              = Len(appliedLog') - Len(appliedLog)]_vars

\* one update was applied immediately and one by a flush
C18_Witness ==
    /\ m_routeUpdatesApplied = 2
    /\ \E k \in 1..Len(appliedLog) : appliedLog[k].via = "immediate"
    /\ \E k \in 1..Len(appliedLog) : appliedLog[k].via = "flush"

\* a step in which an event is added to the predicted totals
PredictedEventCompleted == m_rfp'.linkDownEvents = m_rfp.linkDownEvents + 1

\* C19 as stated: the outage added for a completed predicted event is the
\* clock at the T0 action minus the clock at the T1 action that started the
\* measurement, in milliseconds and not below 0.
C19_OutageIsT0MinusT1 ==
    [][PredictedEventCompleted
           => m_rfp'.routeOutageTotal
                  = MsAdd(m_rfp.routeOutageTotal,
                          OutageTime(
                              [routeUpdateTime |-> NowMs(clock'),
                               linkDownTime |->
                                   m_activeEvents[MakeLinkKey(lastOp'.a,
                                                              lastOp'.b)]
                                       .linkDownTime]))]_vars

\* C19, amended: the outage added for a completed predicted event is
\* max(0, routeUpdateTime - linkDownTime) of its record, and both stamps are
\* the clock at the T1 action that started it (the T0 action does not stamp
\* a predicted event), so the outage added is 0.
C19_OutageIsZeroForPredicted ==
    [][PredictedEventCompleted
           => LET event == m_activeEvents[MakeLinkKey(lastOp'.a, lastOp'.b)]
              IN  /\ m_rfp'.routeOutageTotal
                         = MsAdd(m_rfp.routeOutageTotal, OutageTime(event))
                  /\ event.routeUpdateTime = event.linkDownTime
                  /\ m_rfp'.routeOutageTotal = m_rfp.routeOutageTotal]_vars

\* a predicted event was completed three seconds after its T1 action and
\* the predicted outage total is still 0
C19_Witness ==
    /\ lastOp.op = "T0"
    /\ m_rfp.linkDownEvents = 1
    /\ m_rfp.routeOutageTotal = MsOf(0)
    /\ LastLink \notin DOMAIN m_activeEvents
    /\ \E e \in 1..Len(m_predictedEvents) :
           /\ lastOp.ev = e
           /\ MsSub(NowMs(m_predictedEvents[e].T0),
                    NowMs(m_predictedEvents[e].T1)) = MsOf(3000)

\* C20 as stated: an event is added to the predicted totals, and its active
\* record removed, by a T3 action only; the T0 action leaves the totals and
\* the set of active records as they are.
C20_MeasurementCompletedAtT3 ==
    [][/\ PredictedEventCompleted => TimelineStep("T3")
       /\ TimelineStep("T0")
              => /\ m_rfp' = m_rfp
                 /\ DOMAIN m_activeEvents' = DOMAIN m_activeEvents]_vars

\* C20, amended: the measurement is completed by the T0 action, which adds
\* the pair's active record to the predicted totals and removes it; no other
\* action adds to the predicted totals or removes a record, and the T3 action
\* leaves the measurement state untouched.
C20_MeasurementCompletedAtT0 ==
    [][/\ (\/ m_rfp' # m_rfp
           \/ ~(DOMAIN m_activeEvents \subseteq DOMAIN m_activeEvents'))
              => TimelineStep("T0")
       /\ TimelineStep("T3") => UNCHANGED analyzerVars
       /\ (/\ TimelineStep("T0")
           /\ MakeLinkKey(lastOp'.a, lastOp'.b) \in DOMAIN m_activeEvents)
              => /\ PredictedEventCompleted
                 /\ MakeLinkKey(lastOp'.a, lastOp'.b)
                        \notin DOMAIN m_activeEvents']_vars

\* the T0 action has booked the event while its T3 action is still to come
C20_Witness ==
    /\ lastOp.op = "T0"
    /\ fired[lastOp.ev] = <<"T1", "T2", "T0">>
    /\ \E i \in 1..Len(schedule) :
           schedule[i].kind = "T3" /\ schedule[i].ev = lastOp.ev
    /\ m_rfp.linkDownEvents = 1
    /\ m_activeEvents = EmptyMap

\* C21: the T0 action makes no call on the routing sink and leaves every link
\* record, the buffering flag, the pending queue and the blocked and applied
\* counters as they were.
C21_T0HasNoExternalEffect ==
    [][TimelineStep("T0")
           => UNCHANGED <<ldmVars, rmmVars, sinkLog, dceApps, vtyshDropped,
                          appliedLog>>]_vars

\* the T0 action of one event has run while the pair is forced down and
\* another event keeps the buffer in buffering mode
C21_Witness ==
    /\ lastOp.op = "T0"
    /\ LastLink \in m_forcedDownLinks
    /\ m_bfuActive
    /\ sinkLog # <<>>
    /\ m_rfp.linkDownEvents >= 1

\* C22: every stored event has exactly its four actions T1, T2, T0, T3
\* scheduled or already run, once each; no event is stored without them.
C22_StoredEventsAreScheduled ==
    \A e \in 1..Len(m_predictedEvents) :
        \A kind \in {"T1", "T2", "T0", "T3"} :
            Cardinality({i \in 1..Len(schedule) :
                            schedule[i].ev = e /\ schedule[i].kind = kind})
                + Cardinality({k \in 1..Len(fired[e]) : fired[e][k] = kind})
                = 1

\* C23: a report printed while a class has no event gives that class an
\* average outage and an average detection time of exactly 0, and no average
\* of any report is the result of a division by a zero event count.
C23_ZeroEventsAverageZero ==
    report.printed =>
        /\ report.standardEvents = 0
               => /\ report.avgStandardOutage = Finite(0)
                  /\ report.avgStandardDetection = Finite(0)
        /\ report.rfpEvents = 0
               => /\ report.avgRfpOutage = Finite(0)
                  /\ report.avgRfpDetection = Finite(0)
        /\ \A avg \in {report.avgStandardOutage, report.avgRfpOutage,
                       report.avgStandardDetection, report.avgRfpDetection} :
               avg.kind = "finite"

\* a report printed with one baseline event and no predicted event: the
\* baseline averages are the measured ones, the predicted ones are 0
C23_Witness ==
    /\ report.printed
    /\ report.rfpEvents = 0
    /\ report.standardEvents = 1
    /\ report.avgStandardDetection = Finite(BaselineDetectionMs)
    /\ report.avgRfpOutage = Finite(0)
    /\ report.avgRfpDetection = Finite(0)

\* the number of link-state commands among the calls on the sink
LinkCalls(log) == Cardinality({k \in 1..Len(log) : log[k].op = "link"})

\* C24: an observation of a pair that is neither forced down nor inside a
\* masking window changes the reported state and makes one link-state call
\* on the sink exactly when the observed value differs from the pair's
\* current reported state; otherwise it makes no such call and leaves the
\* reported states as they are.
C24_ReportedFollowsDifference ==
    [][(/\ ObserveStep
        /\ MakeOrderedPair(lastOp'.a, lastOp'.b) \notin m_forcedDownLinks
        /\ ~InMaskingWindow(lastOp'.a, lastOp'.b, lastOp'.arg))
           => IF lastOp'.up # GetReportedState(lastOp'.a, lastOp'.b)
              THEN /\ GetReportedStateOf(m_reportedLinkStates', lastOp'.a,
                                         lastOp'.b) = lastOp'.up
                   /\ LinkCalls(sinkLog') = LinkCalls(sinkLog) + 1
              ELSE /\ m_reportedLinkStates' = m_reportedLinkStates
                   /\ LinkCalls(sinkLog') = LinkCalls(sinkLog)]_vars

\* C25: an observation of a pair that is forced down records the observed
\* value as the pair's real state and has no external effect: the call log
\* of the sink, the reported states and the forced set are left as they
\* are, however often the pair flaps.
C25_ForcedPairAbsorbsObservation ==
    [][(/\ ObserveStep
        /\ MakeOrderedPair(lastOp'.a, lastOp'.b) \in m_forcedDownLinks)
           => /\ GetRealStateOf(m_realLinkStates', lastOp'.a, lastOp'.b)
                     = lastOp'.up
              /\ m_reportedLinkStates' = m_reportedLinkStates
              /\ m_forcedDownLinks' = m_forcedDownLinks
              /\ LinkCalls(sinkLog') = LinkCalls(sinkLog)]_vars

\* the second observation found the pair forced down and saw it up: the
\* real state is up, the reported state is still down
C25_Witness ==
    /\ lastOp.op = "observe"
    /\ lastOp.up
    /\ MakeOrderedPair(lastOp.a, lastOp.b) \in m_forcedDownLinks
    /\ Len(submitted) = 2
    /\ GetRealState(lastOp.a, lastOp.b) = TRUE
    /\ GetReportedState(lastOp.a, lastOp.b) = FALSE

\* C26: right after the T1 action of an event the event's pair is forced
\* down and reported down and the buffer is buffering; right after the T2
\* action the buffering flag is false and the pending queue is empty.
C26_StateAfterT1AndT2 ==
    /\ lastOp.op = "T1"
           => /\ LastLink \in m_forcedDownLinks
              /\ GetReportedState(lastOp.a, lastOp.b) = FALSE
              /\ m_bfuActive
    /\ lastOp.op = "T2"
           => /\ ~m_bfuActive
              /\ m_pendingUpdates = <<>>

\* a T2 action has just flushed an update that was queued after the T1
\* action forced the pair down
C26_Witness ==
    /\ lastOp.op = "T2"
    /\ LastLink \in m_forcedDownLinks
    /\ GetReportedState(lastOp.a, lastOp.b) = FALSE
    /\ ~m_bfuActive
    /\ m_pendingUpdates = <<>>
    /\ \E k \in 1..Len(appliedLog) : appliedLog[k].via = "flush"

\* the calls a step adds to the call log of the sink
NewSinkCalls == SubSeq(sinkLog', Len(sinkLog) + 1, Len(sinkLog'))

\* C27: the flush at T2 clears the buffering flag, applies every queued
\* entry, leaves the queue empty and triggers the global convergence exactly
\* once, after the last queued entry was applied; with an empty queue it
\* applies nothing and leaves the applied counter unchanged.
C27_FlushThenConvergeOnce ==
    [][TimelineStep("T2")
           => /\ ~m_bfuActive'
              /\ m_pendingUpdates' = <<>>
              /\ appliedLog' = appliedLog
                                   \o AppliedIds(m_pendingUpdates, "flush")
              /\ Len(NewSinkCalls) >= 1
              /\ \A k \in 1..Len(NewSinkCalls) :
                     NewSinkCalls[k].op = "converge" <=> k = Len(NewSinkCalls)
              /\ Len(NewSinkCalls) > 1 <=> m_pendingUpdates # <<>>
              /\ (m_pendingUpdates = <<>>
                      => m_routeUpdatesApplied' = m_routeUpdatesApplied)]_vars

\* two flushes have run: the first applied a queued update, the second found
\* the queue empty and only triggered the convergence
C27_Witness ==
    /\ lastOp.op = "T2"
    /\ Len(sinkLog) >= 3
    /\ sinkLog[Len(sinkLog)].op = "converge"
    /\ sinkLog[Len(sinkLog) - 1].op = "converge"
    /\ sinkLog[Len(sinkLog) - 2].op # "converge"
    /\ \E k \in 1..Len(appliedLog) : appliedLog[k].via = "flush"

\* the route calls a step adds to the call log of the sink
NewRouteCalls ==
    Cardinality({k \in 1..Len(NewSinkCalls) :
                     NewSinkCalls[k].op \in {"add", "del"}})

\* C28: a submitted update is dispatched on the buffering flag: while
\* buffering it is appended to the end of the queue, only the blocked
\* counter grows by one and no route call reaches the sink; while not
\* buffering it is applied to the sink at once, only the applied counter
\* grows by one and the queue is left as it is.
C28_SubmitDispatchesOnFlag ==
    [][ObserveStep
           => IF m_bfuActive
              THEN /\ Len(m_pendingUpdates') = Len(m_pendingUpdates) + 1
                   /\ SubSeq(m_pendingUpdates', 1, Len(m_pendingUpdates))
                          = m_pendingUpdates
                   /\ m_pendingUpdates'[Len(m_pendingUpdates')].id
                          = Len(submitted')
                   /\ m_routeUpdatesBlocked' = m_routeUpdatesBlocked + 1
                   /\ m_routeUpdatesApplied' = m_routeUpdatesApplied
                   /\ NewRouteCalls = 0
                   /\ appliedLog' = appliedLog
              ELSE /\ m_pendingUpdates' = m_pendingUpdates
                   /\ m_routeUpdatesApplied' = m_routeUpdatesApplied + 1
                   /\ m_routeUpdatesBlocked' = m_routeUpdatesBlocked
                   /\ NewRouteCalls >= 1
                   /\ appliedLog' = Append(appliedLog,
                                           [id |-> Len(submitted'),
                                            via |-> "immediate"])]_vars

\* one update was queued while buffering and, after the flush, another was
\* applied at once
C28_Witness ==
    /\ lastOp.op = "observe"
    /\ submitted = <<TRUE, FALSE>>
    /\ m_routeUpdatesBlocked = 1
    /\ m_routeUpdatesApplied = 2
    /\ m_pendingUpdates = <<>>

\* C29: entering buffering mode while already buffering leaves the flag true
\* and the pending queue and both counters as they are, so the buffer is in
\* the state a single call leaves it in.
C29_EnterBufferingIdempotent ==
    [][(TimelineStep("T1") /\ m_bfuActive)
           => /\ m_bfuActive'
              /\ m_pendingUpdates' = m_pendingUpdates
              /\ m_routeUpdatesBlocked' = m_routeUpdatesBlocked
              /\ m_routeUpdatesApplied' = m_routeUpdatesApplied]_vars

\* the T1 action of a second event ran while the first event was still
\* buffering and held a queued update
C29_Witness ==
    /\ lastOp.op = "T1"
    /\ Len(fired) = 2
    /\ fired[1] = <<"T1">>
    /\ fired[2] = <<"T1">>
    /\ m_bfuActive
    /\ m_pendingUpdates # <<>>
    /\ m_routeUpdatesBlocked >= 1

\* C30: when the naive T1 = T0 - Tc - 2dT is negative the markers are
\* derived forward from T1 = 0.1 s as T2 = T1 + Tc + dT, T3 = T2 + 2dT and
\* T0 = T3 - dT, so T2 - T1 = Tc + dT, T0 - T2 = dT and T3 - T0 = dT as in
\* the unclamped derivation, and the effective T0 is later than the
\* requested one.  Sums and differences are those of double arithmetic.
C30_ClampedMarkersKeepSpacing ==
    (mk.ev.active
     /\ DoubleLess(DoubleSub(DoubleSub(DoubleOf(mk.req), Tc), TwodT),
                   DoubleOf(0)))
        => /\ MkT1 = DoubleOf(ClampT1)
           /\ MkT2 = DoubleAdd(DoubleAdd(MkT1, Tc), dT)
           /\ MkT3 = DoubleAdd(MkT2, TwodT)
           /\ MkT0 = DoubleSub(MkT3, dT)
           /\ DoubleSub(MkT2, MkT1) = DoubleAdd(Tc, dT)
           /\ DoubleSub(MkT0, MkT2) = dT
           /\ DoubleSub(MkT3, MkT0) = dT
           /\ DoubleLess(DoubleOf(mk.req), MkT0)

\* a requested T0 of 1.0 s gives T1 = 0.1 s, T2 = 2.6 s, T0 = 3.1 s,
\* T3 = 3.6 s
C30_Witness ==
    /\ mk.ev.active
    /\ mk.req = 10
    /\ MkT1 = DoubleOf(1)
    /\ MkT2 = DoubleOf(26)
    /\ MkT0 = DoubleOf(31)
    /\ MkT3 = DoubleOf(36)

\* the timeline actions event e has executed so far
FiredOf(e) == IF e <= Len(fired) THEN fired[e] ELSE <<>>

HasFired(e, kind) == \E k \in 1..Len(FiredOf(e)) : FiredOf(e)[k] = kind

\* Simulator::Destroy discarded the callback of event e for the action kind:
\* the run was stopped before the scheduler could fire it
EventDiscarded(e, kind) ==
    \E i \in 1..Len(discarded) :
        discarded[i].kind = kind /\ discarded[i].ev = e

\* the callback of some event for the action kind was discarded
KindDiscarded(kind) ==
    \E i \in 1..Len(discarded) : discarded[i].kind = kind

\* what the run leaves behind: each event whose T1 action has executed has
\* had its T2 and T3 actions executed or lost one of them to the stop, the
\* buffer is off and empty and no update is queued unless a T2 callback was
\* discarded, and no pair is forced down unless a T3 callback was discarded
TimelineSettled ==
    /\ \A e \in 1..Len(fired) :
           HasFired(e, "T1")
               => \/ HasFired(e, "T2") /\ HasFired(e, "T3")
                  \/ EventDiscarded(e, "T2")
                  \/ EventDiscarded(e, "T3")
    /\ \/ ~m_bfuActive /\ m_pendingUpdates = <<>>
       \/ KindDiscarded("T2")
    /\ \A id \in 1..Len(submitted) :
           submitted[id] => (LogPositions(id) # {} \/ KindDiscarded("T2"))
    /\ m_forcedDownLinks = {} \/ KindDiscarded("T3")

\* C31: under a scheduler that eventually fires every registered callback,
\* every event whose T1 action has executed eventually has its T2 and T3
\* actions executed as well, buffering mode is eventually left with an empty
\* queue, every buffered update is eventually applied, and every pair that
\* was forced down is eventually released.  Every run ends with the stop
\* event, so "eventually" is settled by then: the run reaches its end, and
\* at its end all of this has happened.  A callback escapes the scheduler in
\* one way only, by being discarded at the stop: the T2 and T3 callbacks of
\* the event for the first part, a T2 callback for the buffer and a T3
\* callback for the forced pairs.
C31_TimelineRunsToCompletion == <>[](stopped /\ TimelineSettled)

\* an event has run its whole timeline before the stop: an update queued
\* after its T1 action was applied by the flush, buffering is off, the pair
\* is released and the stop found nothing to discard
C31_Witness ==
    /\ HasFired(1, "T1") /\ HasFired(1, "T2") /\ HasFired(1, "T3")
    /\ stopped
    /\ discarded = <<>>
    /\ ~m_bfuActive
    /\ m_pendingUpdates = <<>>
    /\ m_forcedDownLinks = {}
    /\ \E k \in 1..Len(appliedLog) : appliedLog[k].via = "flush"

\* the positions of the link-state commands among the calls a step adds
NewLinkCalls == {k \in 1..Len(NewSinkCalls) : NewSinkCalls[k].op = "link"}

\* C32: the T1 action (force down) and the T3 action (restore) each send the
\* link-state command to both endpoints of the link: the sink receives two
\* link-state calls, one addressed to nodeA and one to nodeB, as many as the
\* 2 modifications the controller counts for the action.
C32_LinkStateSentToBothEndpoints ==
    [][(TimelineStep("T1") \/ TimelineStep("T3"))
           => /\ Cardinality(NewLinkCalls) = 2
              /\ {NewSinkCalls[k].node : k \in NewLinkCalls}
                     = {lastOp'.a, lastOp'.b}
              /\ m_totalQuaggaModifications'
                     = m_totalQuaggaModifications
                       + Cardinality(NewLinkCalls)]_vars

\* a call of one of the three accessors
AccessorStep ==
    /\ lastOp' # lastOp
    /\ lastOp'.op \in {"GetReportedState", "GetRealState", "GetOspfLinkState"}

\* nothing has forced or observed the unordered pair so far
NeverForcedOrObserved(nodeA, nodeB) ==
    \/ /\ submitted = <<>>
       /\ \A e \in 1..Len(fired) : fired[e] = <<>>
    \/ \A p \in EventPairs \cup ObsPairs : {p[1], p[2]} # {nodeA, nodeB}

\* C33: a call of GetReportedState, GetRealState or GetOspfLinkState changes
\* no state, in particular it creates no record for the pair; for a pair
\* that was never forced or observed the call returns false; and
\* GetOspfLinkState returns the reported state of the gate.
C33_AccessorsArePure ==
    [][AccessorStep
           => /\ UNCHANGED <<ldmVars, rmmVars, analyzerVars, schedule,
                             m_predictedEvents, sinkLog, appliedLog>>
              /\ NeverForcedOrObserved(lastOp'.a, lastOp'.b) => ~lastOp'.up
              /\ lastOp'.op = "GetOspfLinkState"
                     => lastOp'.up = GetReportedState(lastOp'.a, lastOp'.b)
              /\ lastOp'.op = "GetReportedState"
                     => lastOp'.up = GetReportedState(lastOp'.a, lastOp'.b)
              /\ lastOp'.op = "GetRealState"
                     => lastOp'.up = GetRealState(lastOp'.a, lastOp'.b)]_vars

\* GetOspfLinkState returned false for a pair nothing ever named, which still
\* has no record, while the observed pair (0, 1) is really up
C33_Witness ==
    /\ lastOp.op = "GetOspfLinkState"
    /\ MakeOrderedPair(lastOp.a, lastOp.b) = <<0, 2>>
    /\ ~lastOp.up
    /\ <<0, 2>> \notin DOMAIN m_reportedLinkStates
    /\ <<0, 2>> \notin DOMAIN m_realLinkStates
    /\ GetRealState(0, 1)

\* C34: in every reachable state the number of updates submitted so far
\* equals the applied counter plus the length of the pending queue: no
\* submitted update is lost or applied twice, over any number of buffering
\* sessions.
C34_UpdatesConserved ==
    Len(submitted) = m_routeUpdatesApplied + Len(m_pendingUpdates)

\* two buffering sessions have passed: one update was applied by the first
\* flush and another is queued in the second session
C34_Witness ==
    /\ Len(submitted) = 2
    /\ m_routeUpdatesApplied = 1
    /\ Len(m_pendingUpdates) = 1
    /\ \E k \in 1..Len(appliedLog) : appliedLog[k].via = "flush"
    /\ m_bfuActive

\* C35: for any registered events, also several on one pair with windows
\* that overlap or touch, from an event's T1 action until that same event's
\* T3 action the event's pair is forced down and reported down; the T3
\* action of another event on the pair does not lift the override early.
C35_OverrideLastsUntilOwnT3 ==
    \A e \in 1..Len(m_predictedEvents) :
        (HasFired(e, "T1") /\ ~HasFired(e, "T3"))
            => /\ MakeOrderedPair(m_predictedEvents[e].nodeA,
                                  m_predictedEvents[e].nodeB)
                      \in m_forcedDownLinks
               /\ GetReportedState(m_predictedEvents[e].nodeA,
                                   m_predictedEvents[e].nodeB) = FALSE

\* C36: while the buffer is in buffering mode no route add or delete reaches
\* the sink from any component; route changes reach the sink only when
\* buffering is off or as part of the flush at T2.
C36_NoRouteChangeWhileBuffering ==
    [][(m_bfuActive /\ ~TimelineStep("T2")) => NewRouteCalls = 0]_vars

\* C37: a link-down observation of a pair at a time inside the masking window
\* [T1, T3] of an event registered for that pair, with the endpoints in
\* either order, is not classified as baseline: the baseline totals (events,
\* outage, detection time, packets lost, modifications) are left unchanged.
C37_MaskedDownIsNotBaseline ==
    [][(/\ ObserveStep
        /\ ~lastOp'.up
        /\ InMaskingWindow(lastOp'.a, lastOp'.b, lastOp'.arg))
           => m_standardOspf' = m_standardOspf]_vars

\* C38: once every callback has run, the number of events in the predicted
\* totals equals the number of registered events whose T1 and T0 actions
\* executed: each is counted exactly once, also when two events concern the
\* same pair and their T1..T0 intervals overlap.
C38_EachPredictedEventCountedOnce ==
    schedule = <<>>
        => m_rfp.linkDownEvents
               = Cardinality({e \in 1..Len(m_predictedEvents) :
                                  HasFired(e, "T1") /\ HasFired(e, "T0")})

\* the route calls the sink receives when every operation of a descriptor
\* is issued on a node
RouteCallsFor(node, update) ==
    [i \in 1..Len(update) |->
        IF update[i].action = "ADD"
        THEN SinkCall("add", node, update[i].dst, update[i].via,
                      update[i].metric, TRUE)
        ELSE SinkCall("del", node, update[i].dst, update[i].via, 0, FALSE)]

RECURSIVE RouteCallsForAll(_)
RouteCallsForAll(entries) ==
    IF entries = <<>> THEN <<>>
    ELSE RouteCallsFor(Head(entries).node, Head(entries).update)
         \o RouteCallsForAll(Tail(entries))

\* the route calls among the calls a step adds, in order
NewRouteCallSeq ==
    SelectSeq(NewSinkCalls, LAMBDA c : c.op \in {"add", "del"})

\* the disclosed state of the observed pair after the observation
DisclosedAfter ==
    GetReportedStateOf(m_reportedLinkStates', lastOp'.a, lastOp'.b)

\* C39: an observation builds its descriptor from the disclosed state (an ADD
\* when disclosed up; a DEL followed by an ADD through a relay node when
\* disclosed down and a node other than the two endpoints exists), and when
\* the descriptor is applied, at once or by the flush, every operation in it
\* is issued to the sink: for disclosed down both the route delete and the
\* alternate route add.
C39_EveryOperationIssued ==
    [][/\ (ObserveStep /\ ~m_bfuActive /\ DisclosedAfter)
              => /\ Len(NewRouteCallSeq) = 1
                 /\ NewRouteCallSeq[1].op = "add"
                 /\ NewRouteCallSeq[1].dst = Prefix(lastOp'.b)
       /\ (ObserveStep /\ ~m_bfuActive /\ ~DisclosedAfter
           /\ Nodes \ {lastOp'.a, lastOp'.b} # {})
              => /\ Len(NewRouteCallSeq) = 2
                 /\ NewRouteCallSeq[1].op = "del"
                 /\ NewRouteCallSeq[1].dst = Prefix(lastOp'.b)
                 /\ NewRouteCallSeq[2].op = "add"
                 /\ NewRouteCallSeq[2].dst = Prefix(lastOp'.b)
                 /\ NewRouteCallSeq[2].via
                        \in {Nexthop(n) :
                                 n \in Nodes \ {lastOp'.a, lastOp'.b}}
       /\ TimelineStep("T2")
              => NewRouteCallSeq = RouteCallsForAll(m_pendingUpdates)]_vars
====
